---- MODULE Spec2Model ----
(***************************************************************************)
(* Boolean networks (BooleanNetwork.py), the synchronous state-space       *)
(* analyzer (StateSpaceAnalysisSynchronous.py) and the asynchronous        *)
(* attractor analyzers (AttractorsAsynchronousTarjan.py,                   *)
(* AttractorsAsynchronousNetworkx.py), and the generation and sampling of  *)
(* trajectories (GenerateTrajectories.py).                                 *)
(*                                                                         *)
(* Python lists are 0-indexed, TLA+ sequences are 1-indexed: element i of  *)
(* a Python list is element i+1 of the sequence that models it.  Node      *)
(* indices, parent indices and state integers keep their Python values.    *)
(* A Python dict is a function whose DOMAIN is the set of its keys.        *)
(***************************************************************************)
EXTENDS Integers, Sequences, FiniteSets, TLC

\* Largest number of nodes of the enumerated networks.
MaxNodes == 2

Bits == {0, 1}

RECURSIVE Pow2(_)
Pow2(k) == IF k <= 0 THEN 1 ELSE 2 * Pow2(k - 1)

Min(a, b) == IF a <= b THEN a ELSE b

EmptyDict == [x \in {} |-> 0]

\* d[k] = v of a Python dict.
DictSet(d, k, v) == [x \in (DOMAIN d) \cup {k} |-> IF x = k THEN v ELSE d[x]]

(***************************************************************************)
(* Networks.                                                               *)
(***************************************************************************)

\* One entry of BooleanNetwork.transitions: (list of parents, truth table).
Transition(parents, table) == [parents |-> parents, table |-> table]

BooleanNetwork(number_of_nodes, transitions) ==
    [number_of_nodes |-> number_of_nodes, transitions |-> transitions]

\* The network of StateSpaceAnalysisSynchronous.main().
ExampleNetwork ==
    BooleanNetwork(3, << Transition(<<0, 1>>, <<1, 1, 0, 1>>),
                         Transition(<<0, 1>>, <<0, 0, 0, 1>>),
                         Transition(<<0, 1, 2>>, <<0, 0, 0, 0, 1, 1, 1, 0>>) >>)

\* The 6-node network of build_test_network().
build_test_network ==
    BooleanNetwork(6, << Transition(<<0, 3, 5>>, <<1, 1, 1, 0, 1, 0, 1, 0>>),
                         Transition(<<2>>, <<1, 0>>),
                         Transition(<<1, 5>>, <<1, 1, 1, 0>>),
                         Transition(<<0, 3>>, <<1, 1, 0, 1>>),
                         Transition(<<0, 1, 3, 5>>,
                                    <<0, 0, 1, 1, 1, 0, 1, 0, 1, 1, 0, 0, 0, 0, 1, 0>>),
                         Transition(<<5>>, <<0, 1>>) >>)

\* The largest number_of_parents random.randint(0, 3) draws for a node.
MaxParents == 3

\* The lists random.sample(population, k) can return for k <= len(population):
\* k distinct elements of the population, in any order.
random_sample(population, k) ==
    IF k = 0 THEN {<<>>}
    ELSE {s \in [1..k -> population] : \A i, j \in 1..k : i # j => s[i] # s[j]}

\* The lists create_random_transition(number_of_variables) can return: 2^n
\* values of random.randint(0, 1).
create_random_transition(number_of_variables) ==
    [1..Pow2(number_of_variables) -> Bits]

\* The (parents, transition) pairs one iteration of the loop of
\* create_random_boolean_network can append for a network of n nodes, for
\* every number_of_parents that random.sample accepts.
NodeChoices(n) ==
    UNION {{Transition(parents, transition) :
                parents \in random_sample(0..(n - 1), number_of_parents),
                transition \in create_random_transition(number_of_parents)} :
              number_of_parents \in 0..Min(MaxParents, n)}

\* create_random_boolean_network(n) can raise ValueError: random.sample
\* raises it when the number_of_parents drawn for a node exceeds n.
RaisesValueError(n) == \E number_of_parents \in 0..MaxParents : number_of_parents > n

\* The lists of transitions create_random_boolean_network(n) can return.
create_random_boolean_network(n) == [1..n -> NodeChoices(n)]

\* Every network BooleanNetwork(n) can build for n in 1..MaxNodes.
RandomNetworks ==
    UNION {{BooleanNetwork(n, transitions) :
                transitions \in create_random_boolean_network(n)} : n \in 1..MaxNodes}

\* A network BooleanNetwork(4) can build at random: nodes 0, 1 and 2 fall to
\* 0 and node 3 negates itself.  Its attractor {0, 8} holds a state beyond
\* the slots of the hash table of a small set.
FourNodeNetwork ==
    BooleanNetwork(4, << Transition(<<0>>, <<0, 0>>),
                         Transition(<<1>>, <<0, 0>>),
                         Transition(<<2>>, <<0, 0>>),
                         Transition(<<3>>, <<1, 0>>) >>)

\* The networks analyzed: those BooleanNetwork(n) builds at random and the
\* two the main programs build from given transitions.
Networks == RandomNetworks \cup {FourNodeNetwork, ExampleNetwork, build_test_network}

\* The interpreter's limit on nested calls (sys.getrecursionlimit()); no
\* program of the repository changes it.
RecursionLimit == 1000

\* The largest number of frames below analyze(): the module alone when
\* analyze() is called at module level, one more for each function between.
MaxCallerFrames == 3

\* The frames above _strongconnect when it calls self._async_successors in
\* its for statement: _async_successors, compute_next_node_state and
\* binary_to_int.
SuccessorFrames == 3

\* The most the interpreter counts against its limit besides the frames of
\* the program when that call is made: nothing under Python 2.7, one or two
\* under the versions of Python 3.
MaxInterpreterFrames == 2

\* The most the attractor test "all(... for node in scc for succ in
\* self._async_successors(node))" counts more than the for statement: the
\* frame of the generator expression, and under some versions of Python 3
\* the call of all() as well.
MaxTestFrames == 2

\* The deepest nestings of _strongconnect one call of analyze() can allow,
\* as pairs <<enter, test>>: the activations nested enter deep or less run
\* the call of their for statement, those nested test deep or less the
\* attractor test.  The pair depends on the caller of analyze() and on the
\* interpreter.
DepthLimits ==
    {<<enter, enter - test_frames>> :
        enter \in {RecursionLimit - (caller_frames + 1 + SuccessorFrames
                                                      + interpreter_frames) :
                      caller_frames \in 1..MaxCallerFrames,
                      interpreter_frames \in 0..MaxInterpreterFrames},
        test_frames \in 1..MaxTestFrames}

\* The number of nodes of the networks on which _strongconnect nests deepest.
ToggleNodes == 10

RECURSIVE toggle_transitions(_)
\* [([0], [1, 0]), ..., ([n - 1], [1, 0])]: every node is its own parent
\* and takes the other value.
toggle_transitions(n) ==
    IF n = 0 THEN <<>>
    ELSE Append(toggle_transitions(n - 1), Transition(<<n - 1>>, <<1, 0>>))

\* BooleanNetwork(n, transitions) for these transitions: every state has n
\* asynchronous successors, and the depth-first search of _strongconnect
\* from state 0 is still on its first path, no call having returned, when a
\* thousand calls are nested.
ToggleNetwork == BooleanNetwork(ToggleNodes, toggle_transitions(ToggleNodes))

RECURSIVE xor(_, _)
\* a ^ b
xor(a, b) ==
    IF a = 0 /\ b = 0 THEN 0
    ELSE ((a + b) % 2) + 2 * xor(a \div 2, b \div 2)

\* The j-th word of the reflected Gray code, j ^ (j >> 1).
gray(j) == xor(j, j \div 2)

RECURSIVE gray_index(_)
\* The j with gray(j) = state.
gray_index(state) ==
    IF state = 0 THEN 0 ELSE xor(state, gray_index(state \div 2))

\* The length of the path of the network below: the activation of its last
\* state is nested as deep as the deepest of DepthLimits.
GrayPathLength == RecursionLimit - (1 + 1 + SuccessorFrames) - 1

\* The state the network below moves to from state: the next word of the
\* Gray code on the path gray(0), ..., gray(GrayPathLength), the state
\* itself elsewhere.
gray_next(state) ==
    IF gray_index(state) < GrayPathLength
    THEN gray(gray_index(state) + 1)
    ELSE state

RECURSIVE gray_table(_, _, _)
\* The entries first .. last of the truth table of node i, all nodes being
\* its parents in node order: entry k is bit i of gray_next(k).
gray_table(i, first, last) ==
    IF first = last
    THEN <<(gray_next(first) \div Pow2(i)) % 2>>
    ELSE gray_table(i, first, (first + last) \div 2)
             \o gray_table(i, (first + last) \div 2 + 1, last)

RECURSIVE range_list(_)
\* list(range(n))
range_list(n) == IF n = 0 THEN <<>> ELSE Append(range_list(n - 1), n - 1)

RECURSIVE gray_transitions(_, _)
\* [(list(range(n)), table of node 0), ..., (list(range(n)), table of node
\* k - 1)]
gray_transitions(n, k) ==
    IF k = 0 THEN <<>>
    ELSE Append(gray_transitions(n, k - 1),
                Transition(range_list(n), gray_table(k - 1, 0, Pow2(n) - 1)))

\* BooleanNetwork(n, transitions) for these transitions: two consecutive
\* words of the Gray code differ in one bit, so the asynchronous graph is
\* the path gray(0) -> gray(1) -> ... -> gray(GrayPathLength) and every
\* other state has no successor.  _strongconnect nests along the path and
\* its deepest activation is the first to find the root of an SCC.
GrayPathNetwork ==
    BooleanNetwork(ToggleNodes, gray_transitions(ToggleNodes, ToggleNodes))

\* What is left of BooleanNetwork(n) when create_random_boolean_network
\* raises ValueError: number_of_nodes was set, transitions never was.
FailedNetworks ==
    {BooleanNetwork(n, <<>>) : n \in {m \in 1..MaxNodes : RaisesValueError(m)}}

NumStates(net) == Pow2(net.number_of_nodes)

States(net) == 0..(NumStates(net) - 1)

(***************************************************************************)
(* BooleanNetwork: state codec and transition function.                    *)
(***************************************************************************)

RECURSIVE binary_to_int_from(_, _)
binary_to_int_from(binary_list, i) ==
    IF i > Len(binary_list) THEN 0
    ELSE binary_list[i] * Pow2(i - 1) + binary_to_int_from(binary_list, i + 1)

\* number = sum of binary_list[i] * 2**i.
binary_to_int(binary_list) == binary_to_int_from(binary_list, 1)

RECURSIVE int_to_binary_bigendian(_, _)
\* A slip in the order: each number % 2 is put in front of the list.
int_to_binary_bigendian(number, k) ==
    IF k = 0 THEN <<>>
    ELSE int_to_binary_bigendian(number \div 2, k - 1) \o <<number % 2>>

RECURSIVE int_to_binary_loop(_, _)
int_to_binary_loop(number, k) ==
    IF k = 0 THEN <<>>
    ELSE <<number % 2>> \o int_to_binary_loop(number \div 2, k - 1)

\* number_of_nodes times: append number % 2, number = number // 2.
int_to_binary(net, number) == int_to_binary_loop(number, net.number_of_nodes)

\* The bug the comment of create_random_boolean_network warns about: the
\* len(parents) == 0 check is missing and transition[0] overwrites the node.
compute_next_node_state_nocheck(net, node_index, current_state_binary) ==
    LET tr == net.transitions[node_index + 1]
        index_binary == [k \in 1..Len(tr.parents) |->
                            current_state_binary[tr.parents[k] + 1]]
    IN  tr.table[binary_to_int(index_binary) + 1]

\* A slip in the index: the parents' values are read most significant first.
compute_next_node_state_bigendian(net, node_index, current_state_binary) ==
    LET tr == net.transitions[node_index + 1]
        n == Len(tr.parents)
        index_binary == [k \in 1..n |-> current_state_binary[tr.parents[n + 1 - k] + 1]]
    IN  IF n = 0
        THEN current_state_binary[node_index + 1]
        ELSE tr.table[binary_to_int(index_binary) + 1]

compute_next_node_state(net, node_index, current_state_binary) ==
    LET tr == net.transitions[node_index + 1]
        index_binary == [k \in 1..Len(tr.parents) |->
                            current_state_binary[tr.parents[k] + 1]]
    IN  IF Len(tr.parents) = 0
        THEN current_state_binary[node_index + 1]
        ELSE tr.table[binary_to_int(index_binary) + 1]

RECURSIVE update_in_place(_, _, _)
\* Nodes i, i+1, ... are updated one after the other in the same list.
update_in_place(net, binary_list, i) ==
    IF i >= net.number_of_nodes THEN binary_list
    ELSE update_in_place(net,
            [binary_list EXCEPT ![i + 1] = compute_next_node_state(net, i, binary_list)],
            i + 1)

\* A slip in the update: the new values are written into the list they are
\* read from, so a node sees the new value of every node before it.
compute_next_network_state_in_place(net, current_state) ==
    binary_to_int(update_in_place(net, int_to_binary(net, current_state), 0))

\* compute_next_network_state(current_state, synchronous=True).
compute_next_network_state_sync(net, current_state) ==
    LET current_state_binary == int_to_binary(net, current_state)
    IN  binary_to_int([i \in 1..net.number_of_nodes |->
            compute_next_node_state(net, i - 1, current_state_binary)])

\* A slip in compute_next_network_state: the loop that copies the current
\* bits is missing, every node but i keeps the 0 of [0] * number_of_nodes.
compute_next_network_state_async_no_copy(net, current_state, i) ==
    LET current_state_binary == int_to_binary(net, current_state)
    IN  binary_to_int([j \in 1..net.number_of_nodes |->
            IF j - 1 = i
            THEN compute_next_node_state(net, i, current_state_binary)
            ELSE 0])

\* compute_next_network_state(current_state, synchronous=False) when
\* random.randint picks node i.
compute_next_network_state_async(net, current_state, i) ==
    LET current_state_binary == int_to_binary(net, current_state)
    IN  binary_to_int([j \in 1..net.number_of_nodes |->
            IF j - 1 = i
            THEN compute_next_node_state(net, i, current_state_binary)
            ELSE current_state_binary[j]])

RECURSIVE async_successors_keep_self(_, _, _)
\* The variant left as a comment in the source: every succ is appended, the
\* state itself included.
async_successors_keep_self(net, state_int, i) ==
    IF i >= net.number_of_nodes THEN <<>>
    ELSE LET cur == int_to_binary(net, state_int)
             new_state == [cur EXCEPT ![i + 1] = compute_next_node_state(net, i, cur)]
             succ == binary_to_int(new_state)
         IN  <<succ>> \o async_successors_keep_self(net, state_int, i + 1)

RECURSIVE async_successors_from(_, _, _)
async_successors_from(net, state_int, i) ==
    IF i >= net.number_of_nodes THEN <<>>
    ELSE LET cur == int_to_binary(net, state_int)
             new_state == [cur EXCEPT ![i + 1] = compute_next_node_state(net, i, cur)]
             succ == binary_to_int(new_state)
         IN  (IF succ # state_int THEN <<succ>> ELSE <<>>)
                 \o async_successors_from(net, state_int, i + 1)

\* _async_successors: the list of successors, in node order.
async_successors(net, state_int) == async_successors_from(net, state_int, 0)

SeqToSet(s) == {s[k] : k \in 1..Len(s)}

(***************************************************************************)
(* State.                                                                  *)
(***************************************************************************)
VARIABLES
    network,            \* the BooleanNetwork under analysis
    phase,              \* which part of the run is executing
    \* StateSpaceAnalyzer
    state_info,         \* self.state_info
    next_attractor_id,  \* self._next_attractor_id
    sync_pc,            \* position inside StateSpaceAnalyzer
    sync_state,         \* loop variable `state` of analyze()
    visited_local,      \* _analyze_from_state: state -> index in path
    path,               \* _analyze_from_state: path
    current,            \* _analyze_from_state: current
    sync_returned,      \* copies of what each analyze() call returned
    \* AsyncAnalyzerTarjan
    tj_state_info,      \* self.state_info
    attractors,         \* self.attractors
    index,              \* self.index
    stack,              \* self.stack
    indices,            \* self.indices
    lowlink,            \* self.lowlink
    on_stack,           \* self.on_stack
    tj_pc,              \* position inside AsyncAnalyzerTarjan
    tj_state,           \* loop variable `state` of analyze()
    frames,             \* activation records of _strongconnect
    popped,             \* every scc popped by _strongconnect, in order
    tj_returned,        \* copies of what each analyze() call returned
    strongconnect_calls,\* state -> number of _strongconnect(state) calls made
    depth_limits,       \* the pair of DepthLimits of the running analyze()
    \* AsyncAnalyzerNX
    nx_state_info,      \* self.state_info
    nx_attractors,      \* self.attractors
    \* evaluation of the BooleanNetwork methods on one input
    ev_op, ev_in, ev_out

syncVars == <<state_info, next_attractor_id, sync_pc, sync_state, visited_local,
              path, current, sync_returned>>

tarjanVars == <<tj_state_info, attractors, index, stack, indices, lowlink, on_stack,
                tj_pc, tj_state, frames, popped, tj_returned, strongconnect_calls,
                depth_limits>>

nxVars == <<nx_state_info, nx_attractors>>

evVars == <<ev_op, ev_in, ev_out>>

vars == <<network, phase, syncVars, tarjanVars, nxVars, evVars>>

\* Number of analyze() calls made on the first analyzer of each kind; one
\* more call is then made on a freshly constructed analyzer.
Reruns == 2

SyncInit ==
    /\ state_info = EmptyDict
    /\ next_attractor_id = 0
    /\ sync_pc = "init"
    /\ sync_state = 0
    /\ visited_local = EmptyDict
    /\ path = <<>>
    /\ current = 0
    /\ sync_returned = <<>>

TarjanInit ==
    /\ tj_state_info = EmptyDict
    /\ attractors = <<>>
    /\ index = 0
    /\ stack = <<>>
    /\ indices = EmptyDict
    /\ lowlink = EmptyDict
    /\ on_stack = EmptyDict
    /\ tj_pc = "init"
    /\ tj_state = 0
    /\ frames = <<>>
    /\ popped = <<>>
    /\ tj_returned = <<>>
    /\ strongconnect_calls = EmptyDict
    /\ depth_limits = <<>>

NxInit ==
    /\ nx_state_info = EmptyDict
    /\ nx_attractors = <<>>

EvInit ==
    /\ ev_op = "none"
    /\ ev_in = <<>>
    /\ ev_out = <<>>

(***************************************************************************)
(* StateSpaceAnalyzer.                                                     *)
(***************************************************************************)

\* The record of one state.
SyncRecord(is_attractor, attractor_id, distance) ==
    [is_attractor |-> is_attractor, attractor_id |-> attractor_id,
     distance |-> distance]

RECURSIVE register_cycle_states(_, _, _, _)
\* for state in path[cycle_start:]: the attractor states, from position i on.
register_cycle_states(info, path_, i, attractor_id) ==
    IF i >= Len(path_) THEN info
    ELSE register_cycle_states(
             DictSet(info, path_[i + 1], SyncRecord(TRUE, attractor_id, 0)),
             path_, i + 1, attractor_id)

RECURSIVE register_transient_states_by_index(_, _, _, _, _)
\* A slip in the distance: the position i in the path is stored instead of
\* cycle_start - i.
register_transient_states_by_index(info, path_, cycle_start, i, attractor_id) ==
    IF i < 0 THEN info
    ELSE register_transient_states_by_index(
             DictSet(info, path_[i + 1], SyncRecord(FALSE, attractor_id, i)),
             path_, cycle_start, i - 1, attractor_id)

RECURSIVE register_transient_states(_, _, _, _, _)
\* for i in range(cycle_start - 1, -1, -1): the transient states, from i down.
register_transient_states(info, path_, cycle_start, i, attractor_id) ==
    IF i < 0 THEN info
    ELSE register_transient_states(
             DictSet(info, path_[i + 1],
                     SyncRecord(FALSE, attractor_id, cycle_start - i)),
             path_, cycle_start, i - 1, attractor_id)

\* A slip in _register_new_attractor: range(cycle_start, -1, -1) writes
\* path[cycle_start] once more, as a transient state.
register_new_attractor_from_cycle_start(info, path_, cycle_start, attractor_id) ==
    register_transient_states(
        register_cycle_states(info, path_, cycle_start, attractor_id),
        path_, cycle_start, cycle_start, attractor_id)

\* A slip in _register_new_attractor: the whole path is taken for the cycle.
register_new_attractor_whole_path(info, path_, cycle_start, attractor_id) ==
    register_cycle_states(info, path_, 0, attractor_id)

\* _register_new_attractor with attractor_id = self._next_attractor_id: the
\* new self.state_info.  path[i] of the code is path_[i + 1] here.
register_new_attractor(info, path_, cycle_start, attractor_id) ==
    register_transient_states(
        register_cycle_states(info, path_, cycle_start, attractor_id),
        path_, cycle_start, cycle_start - 1, attractor_id)

RECURSIVE propagate_from_copy_flag(_, _, _, _)
\* A slip in _propagate_existing_info: is_attractor is copied from the
\* known state's record.
propagate_from_copy_flag(info, path_, known_info, i) ==
    IF i < 0 THEN info
    ELSE propagate_from_copy_flag(
             DictSet(info, path_[i + 1],
                     SyncRecord(known_info.is_attractor, known_info.attractor_id,
                                known_info.distance + (Len(path_) - i))),
             path_, known_info, i - 1)

RECURSIVE propagate_from(_, _, _, _)
\* for i in range(len(path) - 1, -1, -1), from i down.
propagate_from(info, path_, known_info, i) ==
    IF i < 0 THEN info
    ELSE propagate_from(
             DictSet(info, path_[i + 1],
                     SyncRecord(FALSE, known_info.attractor_id,
                                known_info.distance + (Len(path_) - i))),
             path_, known_info, i - 1)

\* A slip in _propagate_existing_info: range(len(path) - 1, 0, -1) leaves
\* path[0] out.
propagate_existing_info_skip_first(info, path_, known_state) ==
    IF Len(path_) <= 1 THEN info
    ELSE LET r == propagate_from(info, Tail(path_), info[known_state], Len(path_) - 2)
         IN  r

\* A slip in _propagate_existing_info: the step from path[-1] to the known
\* state is not counted.
propagate_existing_info_short(info, path_, known_state) ==
    LET known_info == info[known_state]
    IN  propagate_from(info, path_,
                       [known_info EXCEPT !.distance = @ - 1], Len(path_) - 1)

\* _propagate_existing_info: the new self.state_info.
propagate_existing_info(info, path_, known_state) ==
    propagate_from(info, path_, info[known_state], Len(path_) - 1)

\* A slip in StateSpaceAnalyzer: the id counter is shared by all analyzers
\* and a new analyzer does not reset it.
SyncNew_shared_counter ==
    /\ phase = "sync"
    /\ \/ sync_pc = "init"
       \/ sync_pc = "ready" /\ Len(sync_returned) = Reruns
    /\ state_info' = EmptyDict
    /\ sync_pc' = "fresh"
    /\ UNCHANGED <<network, phase, next_attractor_id, sync_state, visited_local, path,
                   current, sync_returned, tarjanVars, nxVars, evVars>>

\* A slip in StateSpaceAnalyzer.__init__: the id counter starts at 1.
SyncNew_ids_from_one ==
    /\ phase = "sync"
    /\ \/ sync_pc = "init"
       \/ sync_pc = "ready" /\ Len(sync_returned) = Reruns
    /\ state_info' = EmptyDict
    /\ next_attractor_id' = 1
    /\ sync_pc' = "fresh"
    /\ UNCHANGED <<network, phase, sync_state, visited_local, path, current,
                   sync_returned, tarjanVars, nxVars, evVars>>

\* StateSpaceAnalyzer.__init__: the first analyzer, and a fresh one after the
\* first has been analyzed Reruns times.
SyncNew ==
    /\ phase = "sync"
    /\ \/ sync_pc = "init"
       \/ sync_pc = "ready" /\ Len(sync_returned) = Reruns
    /\ state_info' = EmptyDict
    /\ next_attractor_id' = 0
    /\ sync_pc' = "fresh"
    /\ UNCHANGED <<network, phase, sync_state, visited_local, path, current,
                   sync_returned, tarjanVars, nxVars, evVars>>

\* analyze() is called: the for loop starts at state 0.
SyncAnalyzeCall ==
    /\ phase = "sync"
    /\ \/ sync_pc = "fresh"
       \/ sync_pc = "ready" /\ Len(sync_returned) < Reruns
    /\ sync_pc' = "loop"
    /\ sync_state' = 0
    /\ UNCHANGED <<network, phase, state_info, next_attractor_id, visited_local,
                   path, current, sync_returned, tarjanVars, nxVars, evVars>>

\* One iteration of the for loop of analyze() whose state is already in
\* state_info.
SyncSkip ==
    /\ phase = "sync"
    /\ sync_pc = "loop"
    /\ sync_state < NumStates(network)
    /\ sync_state \in DOMAIN state_info
    /\ sync_state' = sync_state + 1
    /\ UNCHANGED <<network, phase, state_info, next_attractor_id, sync_pc,
                   visited_local, path, current, sync_returned, tarjanVars,
                   nxVars, evVars>>

\* One iteration of the for loop of analyze() that calls
\* _analyze_from_state(state): the walk starts with an empty path.
\* A slip in _analyze_from_state: visited_local and path are kept from the
\* walk before instead of starting empty.
SyncWalkStart_keep_path ==
    /\ phase = "sync"
    /\ sync_pc = "loop"
    /\ sync_state < NumStates(network)
    /\ sync_state \notin DOMAIN state_info
    /\ sync_pc' = "walk"
    /\ current' = sync_state
    /\ UNCHANGED <<network, phase, state_info, next_attractor_id, sync_state,
                   visited_local, path, sync_returned, tarjanVars, nxVars, evVars>>

SyncWalkStart ==
    /\ phase = "sync"
    /\ sync_pc = "loop"
    /\ sync_state < NumStates(network)
    /\ sync_state \notin DOMAIN state_info
    /\ sync_pc' = "walk"
    /\ visited_local' = EmptyDict
    /\ path' = <<>>
    /\ current' = sync_state
    /\ UNCHANGED <<network, phase, state_info, next_attractor_id, sync_state,
                   sync_returned, tarjanVars, nxVars, evVars>>

\* Case 1 of the while loop: current is on the local path.
SyncWalkCycle ==
    /\ phase = "sync"
    /\ sync_pc = "walk"
    /\ current \in DOMAIN visited_local
    /\ state_info' = register_new_attractor(state_info, path, visited_local[current],
                                            next_attractor_id)
    /\ next_attractor_id' = next_attractor_id + 1
    /\ sync_pc' = "loop"
    /\ sync_state' = sync_state + 1
    /\ UNCHANGED <<network, phase, visited_local, path, current, sync_returned,
                   tarjanVars, nxVars, evVars>>

\* Case 2 of the while loop: current is already in state_info.
SyncWalkKnown ==
    /\ phase = "sync"
    /\ sync_pc = "walk"
    /\ current \notin DOMAIN visited_local
    /\ current \in DOMAIN state_info
    /\ state_info' = propagate_existing_info(state_info, path, current)
    /\ sync_pc' = "loop"
    /\ sync_state' = sync_state + 1
    /\ UNCHANGED <<network, phase, next_attractor_id, visited_local, path, current,
                   sync_returned, tarjanVars, nxVars, evVars>>

\* A slip in the while loop: the walk goes on through states that are
\* already in state_info.
SyncWalkStep_into_known ==
    /\ phase = "sync"
    /\ sync_pc = "walk"
    /\ current \notin DOMAIN visited_local
    /\ visited_local' = DictSet(visited_local, current, Len(path))
    /\ path' = Append(path, current)
    /\ current' = compute_next_network_state_sync(network, current)
    /\ UNCHANGED <<network, phase, state_info, next_attractor_id, sync_pc,
                   sync_state, sync_returned, tarjanVars, nxVars, evVars>>

\* Otherwise: record the position, append to the path, advance.
SyncWalkStep ==
    /\ phase = "sync"
    /\ sync_pc = "walk"
    /\ current \notin DOMAIN visited_local
    /\ current \notin DOMAIN state_info
    /\ visited_local' = DictSet(visited_local, current, Len(path))
    /\ path' = Append(path, current)
    /\ current' = compute_next_network_state_sync(network, current)
    /\ UNCHANGED <<network, phase, state_info, next_attractor_id, sync_pc,
                   sync_state, sync_returned, tarjanVars, nxVars, evVars>>

\* The for loop of analyze() is over: return self.state_info.
SyncAnalyzeReturn ==
    /\ phase = "sync"
    /\ sync_pc = "loop"
    /\ sync_state >= NumStates(network)
    /\ sync_pc' = "ready"
    /\ sync_returned' = Append(sync_returned, state_info)
    /\ UNCHANGED <<network, phase, state_info, next_attractor_id, sync_state,
                   visited_local, path, current, tarjanVars, nxVars, evVars>>

\* collect_attractor_states(state_info, 'synchronous'): the states whose
\* info.get("distance", 0) is 0.
collect_attractor_states_synchronous(info) ==
    {state \in DOMAIN info :
        (IF "distance" \in DOMAIN info[state] THEN info[state].distance ELSE 0) = 0}

\* collect_attractor_states(state_info, 'asynchronous'): the states whose
\* record has is_attractor True.
collect_attractor_states_asynchronous(info) ==
    {state \in DOMAIN info :
        IF "is_attractor" \in DOMAIN info[state]
        THEN info[state].is_attractor ELSE FALSE}

\* collect_attractor_states(state_info, mode) for the two modes of the
\* programs.
collect_attractor_states(info, mode) ==
    IF mode = "synchronous"
    THEN collect_attractor_states_synchronous(info)
    ELSE collect_attractor_states_asynchronous(info)

(***************************************************************************)
(* AsyncAnalyzerTarjan.                                                    *)
(***************************************************************************)

\* The value None of an attractor_id.
None == -1

AsyncRecord(is_attractor, attractor_id) ==
    [is_attractor |-> is_attractor, attractor_id |-> attractor_id]

\* One activation of _strongconnect(state): the list the for loop iterates
\* and the number of its elements already handled.
Frame(state) == [state |-> state, succs |-> async_successors(network, state), k |-> 0]

\* A slip in _strongconnect: the on-stack test never succeeds.
OnStackGet_never(succ) == FALSE

\* self.on_stack.get(succ, False)
OnStackGet(succ) == IF succ \in DOMAIN on_stack THEN on_stack[succ] ELSE FALSE

\* A slip in _strongconnect: the while loop is missing, one state is popped.
pop_scc_top_only(stk, state) ==
    <<SubSeq(stk, 1, Len(stk) - 1), {stk[Len(stk)]}>>

RECURSIVE pop_scc(_, _)
\* The while loop of _strongconnect: pop until w == state.  The result is
\* <<the stack left, the set scc>>.
pop_scc(stk, state) ==
    LET w == stk[Len(stk)]
        rest == SubSeq(stk, 1, Len(stk) - 1)
    IN  IF w = state THEN <<rest, {w}>>
        ELSE LET r == pop_scc(rest, state) IN <<r[1], r[2] \cup {w}>>

\* A slip in _strongconnect: every popped scc is taken for an attractor.
is_attractor_scc_always(net, scc) == TRUE

\* A slip in the attractor test: any(...) in place of all(...).
is_attractor_scc_any(net, scc) ==
    \E node \in scc : \E succ \in SeqToSet(async_successors(net, node)) : succ \in scc

\* all(succ in scc for node in scc for succ in self._async_successors(node))
is_attractor_scc(net, scc) ==
    \A node \in scc : \A succ \in SeqToSet(async_successors(net, node)) : succ \in scc

\* AsyncAnalyzerTarjan.__init__: the first analyzer, and a fresh one after
\* the first has been analyzed Reruns times.
TarjanNew ==
    /\ phase = "tarjan"
    /\ \/ tj_pc = "init"
       \/ tj_pc = "ready" /\ Len(tj_returned) = Reruns
    /\ tj_state_info' = EmptyDict
    /\ attractors' = <<>>
    /\ index' = 0
    /\ stack' = <<>>
    /\ indices' = EmptyDict
    /\ lowlink' = EmptyDict
    /\ on_stack' = EmptyDict
    /\ tj_pc' = "fresh"
    /\ popped' = <<>>
    /\ strongconnect_calls' = EmptyDict
    /\ UNCHANGED <<network, phase, tj_state, frames, tj_returned, depth_limits,
                   syncVars, nxVars, evVars>>

\* analyze() is called: the first for loop starts at state 0.  The caller
\* and the interpreter fix the pair of DepthLimits of the call; the model
\* draws it at the first step whose outcome depends on it.
TarjanAnalyzeCall ==
    /\ phase = "tarjan"
    /\ \/ tj_pc = "fresh"
       \/ tj_pc = "ready" /\ Len(tj_returned) < Reruns
    /\ tj_pc' = "loop"
    /\ tj_state' = 0
    /\ depth_limits' = <<>>
    /\ UNCHANGED <<network, phase, tj_state_info, attractors, index, stack, indices,
                   lowlink, on_stack, frames, popped, tj_returned, strongconnect_calls,
                   syncVars, nxVars, evVars>>

\* One iteration of the first for loop of analyze() whose state is already
\* in self.indices.
TarjanSkip ==
    /\ phase = "tarjan"
    /\ tj_pc = "loop"
    /\ tj_state < NumStates(network)
    /\ tj_state \in DOMAIN indices
    /\ tj_state' = tj_state + 1
    /\ UNCHANGED <<network, phase, tj_state_info, attractors, index, stack, indices,
                   lowlink, on_stack, tj_pc, frames, popped, tj_returned,
                   strongconnect_calls, depth_limits,
                   syncVars, nxVars, evVars>>

\* The first lines of _strongconnect(state): its index, its lowlink and the
\* push on the stack.
EnterLines(state) ==
    /\ indices' = DictSet(indices, state, index)
    /\ lowlink' = DictSet(lowlink, state, index)
    /\ index' = index + 1
    /\ stack' = Append(stack, state)
    /\ on_stack' = DictSet(on_stack, state, TRUE)
    /\ strongconnect_calls' = DictSet(strongconnect_calls, state,
                                  IF state \in DOMAIN strongconnect_calls
                                  THEN strongconnect_calls[state] + 1
                                  ELSE 1)

\* The first lines of _strongconnect(state), up to the start of its for loop.
Enter(state) ==
    /\ EnterLines(state)
    /\ frames' = Append(frames, Frame(state))

\* One iteration of the first for loop of analyze() that calls
\* _strongconnect(state).  The first activation is within every pair of
\* DepthLimits.
TarjanVisit ==
    /\ phase = "tarjan"
    /\ tj_pc = "loop"
    /\ tj_state < NumStates(network)
    /\ tj_state \notin DOMAIN indices
    /\ Enter(tj_state)
    /\ tj_pc' = "dfs"
    /\ UNCHANGED <<network, phase, tj_state_info, attractors, tj_state, popped,
                   tj_returned, depth_limits, syncVars, nxVars, evVars>>

TopFrame == frames[Len(frames)]

\* The successor the for loop of the running _strongconnect handles next.
NextSucc == TopFrame.succs[TopFrame.k + 1]

\* The pairs of DepthLimits the running analyze() can have: every pair as
\* long as no step depended on it, the pair drawn from then on.
KnownLimits == IF depth_limits = <<>> THEN DepthLimits ELSE {depth_limits}

\* The activation nested depth deep runs its call of kind i (1: the call of
\* _async_successors in its for statement, 2: the attractor test) within
\* the interpreter's limit.  The pair is drawn when some pairs allow the
\* call and others do not.
WithinLimit(i, depth) ==
    IF \A limits \in KnownLimits : depth <= limits[i]
    THEN UNCHANGED depth_limits
    ELSE \E limits \in KnownLimits :
            /\ depth <= limits[i]
            /\ depth_limits' = limits

\* The same call exceeds the interpreter's limit.
BeyondLimit(i, depth) ==
    \E limits \in KnownLimits :
       /\ depth > limits[i]
       /\ depth_limits' = limits

\* for succ ...: succ not in self.indices, _strongconnect(succ) is called
\* and runs its first lines and the call of its for statement within the
\* interpreter's limit.
DfsRecurse ==
    /\ phase = "tarjan"
    /\ tj_pc = "dfs"
    /\ TopFrame.k < Len(TopFrame.succs)
    /\ NextSucc \notin DOMAIN indices
    /\ WithinLimit(1, Len(frames) + 1)
    /\ Enter(NextSucc)
    /\ UNCHANGED <<network, phase, tj_state_info, attractors, tj_pc, tj_state,
                   popped, tj_returned, syncVars, nxVars, evVars>>

\* for succ ...: _strongconnect(succ) is called, sets its index and pushes
\* succ, and the call of _async_successors in its for statement exceeds the
\* interpreter's limit: RecursionError (RuntimeError in Python 2) leaves
\* every activation and analyze(), which catch nothing.
DfsRecursionError ==
    /\ phase = "tarjan"
    /\ tj_pc = "dfs"
    /\ TopFrame.k < Len(TopFrame.succs)
    /\ NextSucc \notin DOMAIN indices
    /\ BeyondLimit(1, Len(frames) + 1)
    /\ EnterLines(NextSucc)
    /\ frames' = <<>>
    /\ tj_pc' = "RecursionError"
    /\ UNCHANGED <<network, phase, tj_state_info, attractors, tj_state,
                   popped, tj_returned, syncVars, nxVars, evVars>>

\* for succ ...: succ is on the stack.
DfsOnStack ==
    /\ phase = "tarjan"
    /\ tj_pc = "dfs"
    /\ TopFrame.k < Len(TopFrame.succs)
    /\ NextSucc \in DOMAIN indices
    /\ OnStackGet(NextSucc)
    /\ lowlink' = [lowlink EXCEPT ![TopFrame.state] =
                       Min(lowlink[TopFrame.state], indices[NextSucc])]
    /\ frames' = [frames EXCEPT ![Len(frames)].k = @ + 1]
    /\ UNCHANGED <<network, phase, tj_state_info, attractors, index, stack, indices,
                   on_stack, tj_pc, tj_state, popped, tj_returned, strongconnect_calls,
                   depth_limits, syncVars, nxVars, evVars>>

\* for succ ...: succ has an index and is not on the stack.
DfsCross ==
    /\ phase = "tarjan"
    /\ tj_pc = "dfs"
    /\ TopFrame.k < Len(TopFrame.succs)
    /\ NextSucc \in DOMAIN indices
    /\ ~OnStackGet(NextSucc)
    /\ frames' = [frames EXCEPT ![Len(frames)].k = @ + 1]
    /\ UNCHANGED <<network, phase, tj_state_info, attractors, index, stack, indices,
                   lowlink, on_stack, tj_pc, tj_state, popped, tj_returned,
                   strongconnect_calls, depth_limits,
                   syncVars, nxVars, evVars>>

\* A slip in _strongconnect: the caller's lowlink is not updated after the
\* recursive call.
Return_keep_lowlink(state, ll) ==
    IF Len(frames) > 1
    THEN /\ lowlink' = ll
         /\ frames' = [SubSeq(frames, 1, Len(frames) - 1)
                           EXCEPT ![Len(frames) - 1].k = @ + 1]
         /\ UNCHANGED <<tj_pc, tj_state>>
    ELSE /\ lowlink' = ll
         /\ frames' = <<>>
         /\ tj_pc' = "loop"
         /\ tj_state' = tj_state + 1

\* _strongconnect(state) returns: to the for loop of the calling
\* _strongconnect, which updates its lowlink, or to the for loop of analyze().
\* ll is self.lowlink at the return.
Return(state, ll) ==
    IF Len(frames) > 1
    THEN LET caller == frames[Len(frames) - 1].state
         IN  /\ lowlink' = [ll EXCEPT ![caller] = Min(ll[caller], ll[state])]
             /\ frames' = [SubSeq(frames, 1, Len(frames) - 1)
                               EXCEPT ![Len(frames) - 1].k = @ + 1]
             /\ UNCHANGED <<tj_pc, tj_state>>
    ELSE /\ lowlink' = ll
         /\ frames' = <<>>
         /\ tj_pc' = "loop"
         /\ tj_state' = tj_state + 1

\* The while loop of the running _strongconnect, whose state is the root of
\* an SCC: the SCC is popped and every state of it is marked off the stack.
PopLines ==
    LET r == pop_scc(stack, TopFrame.state)
        scc == r[2]
    IN  /\ stack' = r[1]
        /\ on_stack' = [w \in DOMAIN on_stack |->
                           IF w \in scc THEN FALSE ELSE on_stack[w]]
        /\ popped' = Append(popped, scc)

\* The for loop of _strongconnect is over and state is the root of an SCC:
\* pop it, run the attractor test within the interpreter's limit, append the
\* SCC to self.attractors if it has no outgoing edge, return.
DfsRoot ==
    /\ phase = "tarjan"
    /\ tj_pc = "dfs"
    /\ TopFrame.k >= Len(TopFrame.succs)
    /\ lowlink[TopFrame.state] = indices[TopFrame.state]
    /\ WithinLimit(2, Len(frames))
    /\ PopLines
    /\ LET scc == pop_scc(stack, TopFrame.state)[2]
       IN  attractors' = IF is_attractor_scc(network, scc)
                         THEN Append(attractors, scc)
                         ELSE attractors
    /\ Return(TopFrame.state, lowlink)
    /\ UNCHANGED <<network, phase, tj_state_info, index, indices, tj_returned,
                   strongconnect_calls,
                   syncVars, nxVars, evVars>>

\* The for loop of _strongconnect is over and state is the root of an SCC:
\* it is popped, and the first call of _async_successors inside the
\* attractor test exceeds the interpreter's limit.  RecursionError
\* (RuntimeError in Python 2) leaves every activation and analyze() with the
\* SCC off the stack and not appended to self.attractors.
DfsRootRecursionError ==
    /\ phase = "tarjan"
    /\ tj_pc = "dfs"
    /\ TopFrame.k >= Len(TopFrame.succs)
    /\ lowlink[TopFrame.state] = indices[TopFrame.state]
    /\ BeyondLimit(2, Len(frames))
    /\ PopLines
    /\ frames' = <<>>
    /\ tj_pc' = "RecursionError"
    /\ UNCHANGED <<network, phase, tj_state_info, attractors, index, indices,
                   lowlink, tj_state, tj_returned, strongconnect_calls,
                   syncVars, nxVars, evVars>>

\* The for loop of _strongconnect is over and state is not a root: return.
DfsReturn ==
    /\ phase = "tarjan"
    /\ tj_pc = "dfs"
    /\ TopFrame.k >= Len(TopFrame.succs)
    /\ lowlink[TopFrame.state] # indices[TopFrame.state]
    /\ Return(TopFrame.state, lowlink)
    /\ UNCHANGED <<network, phase, tj_state_info, attractors, index, stack, indices,
                   on_stack, popped, tj_returned, depth_limits,
                   strongconnect_calls, syncVars, nxVars, evVars>>

RECURSIVE assign_attractor_ids_one_id(_, _, _)
\* A slip in the "Assign attractor IDs" loop: attractor_id += 1 is missing.
assign_attractor_ids_one_id(info, attrs, k) ==
    IF k >= Len(attrs) THEN info
    ELSE assign_attractor_ids_one_id(
             [s \in (DOMAIN info) \cup attrs[k + 1] |->
                 IF s \in attrs[k + 1] THEN AsyncRecord(TRUE, 0) ELSE info[s]],
             attrs, k + 1)

RECURSIVE assign_attractor_ids_reversed(_, _, _)
\* A slip in the "Assign attractor IDs" loop: the ids are counted down from
\* len(self.attractors) - 1.
assign_attractor_ids_reversed(info, attrs, k) ==
    IF k >= Len(attrs) THEN info
    ELSE assign_attractor_ids_reversed(
             [s \in (DOMAIN info) \cup attrs[k + 1] |->
                 IF s \in attrs[k + 1] THEN AsyncRecord(TRUE, Len(attrs) - 1 - k)
                 ELSE info[s]],
             attrs, k + 1)

RECURSIVE assign_attractor_ids(_, _, _)
\* The "Assign attractor IDs" loop of analyze(), from self.attractors[k] on,
\* with attractor_id = k.
assign_attractor_ids(info, attrs, k) ==
    IF k >= Len(attrs) THEN info
    ELSE assign_attractor_ids(
             [s \in (DOMAIN info) \cup attrs[k + 1] |->
                 IF s \in attrs[k + 1] THEN AsyncRecord(TRUE, k) ELSE info[s]],
             attrs, k + 1)

\* A slip in the transient records: attractor_id 0 instead of None.
mark_transient_id_zero(info, num_states) ==
    [s \in (DOMAIN info) \cup (0..(num_states - 1)) |->
        IF s \in DOMAIN info THEN info[s] ELSE AsyncRecord(FALSE, 0)]

\* The "Mark remaining states as transient" loop of analyze().
mark_transient(info, num_states) ==
    [s \in (DOMAIN info) \cup (0..(num_states - 1)) |->
        IF s \in DOMAIN info THEN info[s] ELSE AsyncRecord(FALSE, None)]

\* The first for loop of analyze() is over: assign the attractor ids, mark
\* the remaining states and return self.state_info.
TarjanAnalyzeReturn ==
    /\ phase = "tarjan"
    /\ tj_pc = "loop"
    /\ tj_state >= NumStates(network)
    /\ tj_state_info' = mark_transient(
                            assign_attractor_ids(tj_state_info, attractors, 0),
                            NumStates(network))
    /\ tj_returned' = Append(tj_returned, tj_state_info')
    /\ tj_pc' = "ready"
    /\ UNCHANGED <<network, phase, attractors, index, stack, indices, lowlink,
                   on_stack, tj_state, frames, popped,
                   strongconnect_calls, depth_limits, syncVars, nxVars, evVars>>

(***************************************************************************)
(* AsyncAnalyzerNX.                                                        *)
(***************************************************************************)

\* The edges G.add_edge adds: (state, succ) for every successor.
nx_edges(net) ==
    UNION {{<<state, succ>> : succ \in SeqToSet(async_successors(net, state))} :
              state \in States(net)}

\* The nodes of G: add_edge adds both ends of an edge, and nothing else
\* adds a node.
nx_nodes(net) == {e[1] : e \in nx_edges(net)} \cup {e[2] : e \in nx_edges(net)}

RECURSIVE reach_closure(_, _, _)
\* The states reachable along edges from those of seen, with frontier the
\* ones not yet expanded.
reach_closure(edges, seen, frontier) ==
    IF frontier = {} THEN seen
    ELSE LET next == {e[2] : e \in {x \in edges : x[1] \in frontier}}
         IN  reach_closure(edges, seen \cup next, next \ seen)

\* The states reachable from s along edges, s included.
Reachable(edges, s) == reach_closure(edges, {s}, {s})

RECURSIVE back_closure(_, _, _)
\* The states from which those of seen are reachable along edges.
back_closure(edges, seen, frontier) ==
    IF frontier = {} THEN seen
    ELSE LET prev == {e[1] : e \in {x \in edges : x[2] \in frontier}}
         IN  back_closure(edges, seen \cup prev, prev \ seen)

\* The states from which s is reachable along edges, s included.
CoReachable(edges, s) == back_closure(edges, {s}, {s})

\* The class of mutual reachability of s.
SccOf(edges, s) == Reachable(edges, s) \cap CoReachable(edges, s)

RECURSIVE scc_partition(_, _)
\* The classes of mutual reachability of the given nodes.
scc_partition(edges, nodes) ==
    IF nodes = {} THEN {}
    ELSE LET s == CHOOSE x \in nodes : \A y \in nodes : x <= y
             scc == SccOf(edges, s)
         IN  {scc} \cup scc_partition(edges, nodes \ scc)

\* nx.strongly_connected_components(G): the classes of mutual reachability
\* among the nodes of G.
strongly_connected_components(net, nodes) == scc_partition(nx_edges(net), nodes)

\* The SCCs analyze() keeps: those all of whose G.successors are inside.
nx_attractor_sccs(net) ==
    {scc \in strongly_connected_components(net, nx_nodes(net)) :
        \A state \in scc : \A succ \in SeqToSet(async_successors(net, state)) :
            succ \in scc}

\* The orders in which a set of sets can be enumerated.
Orderings(S) ==
    LET n == Cardinality(S)
    IN  {f \in [1..n -> S] : \A i, j \in 1..n : f[i] = f[j] => i = j}

\* self.state_info when AsyncAnalyzerNX.analyze() returns, networkx having
\* yielded the attractor SCCs in the given order.
nx_analyze(net, order) ==
    mark_transient(assign_attractor_ids(EmptyDict, order, 0), NumStates(net))

(***************************************************************************)
(* Construction of a network from caller-supplied transitions.             *)
(***************************************************************************)

\* The (parents, transition) pairs a caller or a file can supply for a node of
\* an n-node network: at most one parent, which may lie outside 0..n-1, and
\* a truth table of length 1 or 2, which may not be 2^(number of parents).
SuppliedChoices(n) ==
    {Transition(ps, t) :
        ps \in {<<>>} \cup {<<p>> : p \in (-1)..n},
        t \in [1..Pow2(0) -> Bits] \cup [1..Pow2(1) -> Bits]}

\* What section 4.1 of the specification requires of a network.
ValidNetwork(net) ==
    /\ Len(net.transitions) = net.number_of_nodes
    /\ \A i \in 1..Len(net.transitions) :
          LET tr == net.transitions[i]
          IN  /\ \A k \in 1..Len(tr.parents) :
                    tr.parents[k] \in 0..(net.number_of_nodes - 1)
              /\ Len(tr.table) = Pow2(Len(tr.parents))

\* BooleanNetwork.__init__(number_of_nodes, transitions): the object built.
booleannetwork_init(number_of_nodes, transitions) ==
    BooleanNetwork(number_of_nodes, transitions)

\* BooleanNetwork.load_network on a file whose first line is n_nodes and
\* whose other lines hold the given parents and transitions, one node a line.
load_network(n_nodes, lines) ==
    booleannetwork_init(n_nodes,
        [i \in 1..Len(lines) |-> Transition(lines[i].parents, lines[i].table)])

\* BooleanNetwork(number_of_nodes, transitions) with transitions given.
Construct ==
    /\ phase = "unbuilt"
    /\ \E n \in 1..MaxNodes : \E tr \in [1..n -> SuppliedChoices(n)] :
          network' = booleannetwork_init(n, tr)
    /\ phase' = "sync"
    /\ UNCHANGED <<syncVars, tarjanVars, nxVars, evVars>>

\* BooleanNetwork(number_of_nodes) with transitions None: the transitions
\* are those of create_random_boolean_network, which can raise ValueError.
ConstructRandom ==
    /\ phase = "unbuilt"
    /\ \E n \in 1..MaxNodes :
          \/ /\ \E transitions \in create_random_boolean_network(n) :
                    network' = booleannetwork_init(n, transitions)
             /\ phase' = "sync"
          \/ /\ RaisesValueError(n)
             /\ network' = BooleanNetwork(n, <<>>)
             /\ phase' = "ValueError"
    /\ UNCHANGED <<syncVars, tarjanVars, nxVars, evVars>>

\* BooleanNetwork.load_network(filename).
LoadNetwork ==
    /\ phase = "unbuilt"
    /\ \E n \in 1..MaxNodes : \E lines \in [1..n -> SuppliedChoices(n)] :
          network' = load_network(n, lines)
    /\ phase' = "sync"
    /\ UNCHANGED <<syncVars, tarjanVars, nxVars, evVars>>

InitConstruct ==
    /\ network = BooleanNetwork(0, <<>>)
    /\ phase = "unbuilt"
    /\ SyncInit
    /\ TarjanInit
    /\ NxInit
    /\ EvInit

\* A network is built, an analyzer is made for it and analyze() enters its
\* first walk.
NextConstruct ==
    \/ Construct
    \/ ConstructRandom
    \/ LoadNetwork
    \/ SyncNew
    \/ SyncAnalyzeCall
    \/ SyncWalkStart

SpecConstruct == InitConstruct /\ [][NextConstruct]_vars

(***************************************************************************)
(* Evaluation of the methods of BooleanNetwork on single inputs.           *)
(***************************************************************************)

BitLists(net) == [1..net.number_of_nodes -> Bits]

\* compute_next_node_state(node_index, current_state_binary) is called.
EvalNode ==
    /\ phase = "eval"
    /\ ev_op = "none"
    /\ \E i \in 0..(network.number_of_nodes - 1) : \E b \in BitLists(network) :
          /\ ev_op' = "compute_next_node_state"
          /\ ev_in' = <<i, b>>
          /\ ev_out' = compute_next_node_state(network, i, b)
    /\ UNCHANGED <<network, phase, syncVars, tarjanVars, nxVars>>

\* compute_next_network_state(current_state, synchronous=True) is called.
EvalNetworkSync ==
    /\ phase = "eval"
    /\ ev_op = "none"
    /\ \E s \in States(network) :
          /\ ev_op' = "compute_next_network_state"
          /\ ev_in' = <<s>>
          /\ ev_out' = compute_next_network_state_sync(network, s)
    /\ UNCHANGED <<network, phase, syncVars, tarjanVars, nxVars>>

\* _async_successors(state_int) is called.
EvalAsyncSuccessors ==
    /\ phase = "eval"
    /\ ev_op = "none"
    /\ \E s \in States(network) :
          /\ ev_op' = "_async_successors"
          /\ ev_in' = <<s>>
          /\ ev_out' = async_successors(network, s)
    /\ UNCHANGED <<network, phase, syncVars, tarjanVars, nxVars>>

\* int_to_binary(number) is called on a state.
EvalIntToBinary ==
    /\ phase = "eval"
    /\ ev_op = "none"
    /\ \E s \in States(network) :
          /\ ev_op' = "int_to_binary"
          /\ ev_in' = <<s>>
          /\ ev_out' = int_to_binary(network, s)
    /\ UNCHANGED <<network, phase, syncVars, tarjanVars, nxVars>>

\* binary_to_int(binary_list) is called on a list of N bits.
EvalBinaryToInt ==
    /\ phase = "eval"
    /\ ev_op = "none"
    /\ \E b \in BitLists(network) :
          /\ ev_op' = "binary_to_int"
          /\ ev_in' = <<b>>
          /\ ev_out' = binary_to_int(b)
    /\ UNCHANGED <<network, phase, syncVars, tarjanVars, nxVars>>

InitEval ==
    /\ network \in Networks
    /\ phase = "eval"
    /\ SyncInit
    /\ TarjanInit
    /\ NxInit
    /\ EvInit

NextEval ==
    \/ EvalNode
    \/ EvalNetworkSync
    \/ EvalAsyncSuccessors
    \/ EvalIntToBinary
    \/ EvalBinaryToInt

SpecEval == InitEval /\ [][NextEval]_vars

(***************************************************************************)
(* BooleanNetwork.create_dataset with synchronous=True.                    *)
(***************************************************************************)

\* The longest trajectory_length and the largest sampling_frequency tried.
MaxTrajectoryLength == 3
MaxSamplingFrequency == 2

RECURSIVE create_trajectory_skip_one_more(_, _, _, _, _, _)
\* A slip in the while loop: states_skipped is compared with
\* sampling_frequency, one more state is skipped before each append.
create_trajectory_skip_one_more(net, current_trajectory, current_state, states_skipped, trajectory_length, sampling_frequency) ==
    IF Len(current_trajectory) >= trajectory_length THEN current_trajectory
    ELSE LET next_state == compute_next_network_state_sync(net, current_state)
         IN  IF states_skipped = sampling_frequency
             THEN create_trajectory_skip_one_more(
                      net, Append(current_trajectory, next_state), next_state, 0,
                      trajectory_length, sampling_frequency)
             ELSE create_trajectory_skip_one_more(
                      net, current_trajectory, next_state, states_skipped + 1,
                      trajectory_length, sampling_frequency)

RECURSIVE create_trajectory(_, _, _, _, _, _)
\* The while loop of create_dataset: one transition per iteration, appended
\* when sampling_frequency - 1 states have been skipped.
create_trajectory(net, current_trajectory, current_state, states_skipped, trajectory_length, sampling_frequency) ==
    IF Len(current_trajectory) >= trajectory_length THEN current_trajectory
    ELSE LET next_state == compute_next_network_state_sync(net, current_state)
         IN  IF states_skipped = sampling_frequency - 1
             THEN create_trajectory(
                      net, Append(current_trajectory, next_state), next_state, 0,
                      trajectory_length, sampling_frequency)
             ELSE create_trajectory(
                      net, current_trajectory, next_state, states_skipped + 1,
                      trajectory_length, sampling_frequency)

RECURSIVE create_dataset_from(_, _, _, _, _, _, _)
\* The for loop of create_dataset over the datapoints, from datapoint i on.
create_dataset_from(net, output, i, number_of_datapoints, trajectory_length, sampling_frequency, starting_states) ==
    IF i >= number_of_datapoints THEN output
    ELSE create_dataset_from(
             net,
             Append(output,
                    create_trajectory(net, <<starting_states[i + 1]>>,
                                      starting_states[i + 1], 0,
                                      trajectory_length, sampling_frequency)),
             i + 1, number_of_datapoints, trajectory_length, sampling_frequency,
             starting_states)

\* "Simulate the trajectories" and the return value [output,
\* sampling_frequency] of create_dataset; starting_states holds integers.
create_dataset(net, number_of_datapoints, trajectory_length, sampling_frequency, starting_states) ==
    <<create_dataset_from(net, <<>>, 0, number_of_datapoints, trajectory_length,
                          sampling_frequency, starting_states),
      sampling_frequency>>

\* create_dataset(number_of_datapoints, trajectory_length, True,
\* sampling_frequency, starting_states) is called with one or two
\* datapoints.  starting_states is the list as "Prepare the list of starting
\* points" leaves it: one integer for each datapoint, given by the caller or
\* drawn by random.randint(0, 2**number_of_nodes - 1) for a None.
CreateDataset ==
    /\ phase = "eval"
    /\ ev_op = "none"
    /\ \E number_of_datapoints \in 1..2 :
       \E trajectory_length \in 1..MaxTrajectoryLength :
       \E sampling_frequency \in 1..MaxSamplingFrequency :
       \E starting_states \in [1..number_of_datapoints -> States(network)] :
          /\ ev_op' = "create_dataset"
          /\ ev_in' = <<number_of_datapoints, trajectory_length,
                        sampling_frequency, starting_states>>
          /\ ev_out' = create_dataset(network, number_of_datapoints, trajectory_length,
                                      sampling_frequency, starting_states)
    /\ UNCHANGED <<network, phase, syncVars, tarjanVars, nxVars>>

NextCreateDataset == CreateDataset

SpecCreateDataset == InitEval /\ [][NextCreateDataset]_vars

(***************************************************************************)
(* GenerateTrajectories in synchronous mode.                               *)
(***************************************************************************)

\* The largest max_length tried and the largest num_trajectories.
MaxLength == 10
MaxNumTrajectories == 1

\* transient_fractions = [2.0/5, 3.0/5, 4.0/5] of generate_and_sample_network,
\* each value as <<numerator, denominator>>.
transient_fractions == << <<2, 5>>, <<3, 5>>, <<4, 5>> >>

\* The values of the parameter transient_fraction (0..1) tried: those of
\* generate_and_sample_network, both ends of the range and its middle.
TransientFractions ==
    SeqToSet(transient_fractions) \cup {<<0, 1>>, <<1, 2>>, <<1, 1>>}

RECURSIVE long_trajectory_count_next(_, _, _, _, _, _, _)
\* A slip in the loop of generate_long_trajectories: the state is counted
\* after the step, so the successor of each recorded state is classified.
long_trajectory_count_next(net, attractor_states, traj, current_state, transient_count, attractor_count, k) ==
    IF k = 0
    THEN [trajectory |-> traj,
          transient_count |-> transient_count,
          attractor_count |-> attractor_count]
    ELSE LET next_state == compute_next_network_state_sync(net, current_state)
         IN  long_trajectory_count_next(
                 net, attractor_states, Append(traj, current_state), next_state,
                 IF next_state \in attractor_states
                 THEN transient_count ELSE transient_count + 1,
                 IF next_state \in attractor_states
                 THEN attractor_count + 1 ELSE attractor_count,
                 k - 1)

RECURSIVE long_trajectory(_, _, _, _, _, _, _)
\* The loop "for _ in range(max_length)" of generate_long_trajectories with
\* k iterations left, and the dict appended to trajectories after it.
long_trajectory(net, attractor_states, traj, current_state, transient_count, attractor_count, k) ==
    IF k = 0
    THEN [trajectory |-> traj,
          transient_count |-> transient_count,
          attractor_count |-> attractor_count]
    ELSE long_trajectory(
             net, attractor_states, Append(traj, current_state),
             compute_next_network_state_sync(net, current_state),
             IF current_state \in attractor_states
             THEN transient_count ELSE transient_count + 1,
             IF current_state \in attractor_states
             THEN attractor_count + 1 ELSE attractor_count,
             k - 1)

\* generate_long_trajectories(network, state_info, max_length,
\* 'synchronous').  The source returns the dicts as a list in the order of
\* state_info.keys(); here each dict is found under its start state.
generate_long_trajectories(net, info, max_length) ==
    LET attractor_states == collect_attractor_states_synchronous(info)
    IN  [start_state \in DOMAIN info |->
            long_trajectory(net, attractor_states, <<>>, start_state, 0, 0, max_length)]

\* int(round(num / den)) for num, den >= 0: Python 3 rounds a tie to the
\* even neighbour, Python 2 away from zero.
python_round(num, den) ==
    LET floor == num \div den
        rem == num % den
    IN  IF 2 * rem < den THEN {floor}
        ELSE IF 2 * rem > den THEN {floor + 1}
        ELSE {floor + 1, IF floor % 2 = 0 THEN floor ELSE floor + 1}

\* traj[offset::sampling_frequency]
slice_from(traj, offset, sampling_frequency) ==
    LET n == IF Len(traj) > offset
             THEN (Len(traj) - offset + sampling_frequency - 1) \div sampling_frequency
             ELSE 0
    IN  [i \in 1..n |-> traj[offset + (i - 1) * sampling_frequency + 1]]

RECURSIVE positions_from(_, _, _, _)
\* [i for i, s in enumerate(fragment) if s in attractor_states] when
\* in_attractor, [... if s not in attractor_states] otherwise, from i on.
positions_from(fragment, attractor_states, in_attractor, i) ==
    IF i >= Len(fragment) THEN <<>>
    ELSE (IF (fragment[i + 1] \in attractor_states) = in_attractor
          THEN <<i>> ELSE <<>>)
         \o positions_from(fragment, attractor_states, in_attractor, i + 1)

\* list[-k:] for k >= 0; list[-0:] is list[0:], the whole list.
last_elements(list, k) ==
    IF k = 0 \/ k >= Len(list) THEN list
    ELSE SubSeq(list, Len(list) - k + 1, Len(list))

\* list[:k] for k >= 0.
first_elements(list, k) == SubSeq(list, 1, Min(k, Len(list)))

RECURSIVE sorted(_)
\* sorted(list) for a list of distinct integers.
sorted(list) ==
    IF Len(list) = 0 THEN <<>>
    ELSE LET m == CHOOSE x \in SeqToSet(list) : \A y \in SeqToSet(list) : x <= y
         IN  <<m>> \o sorted(SelectSeq(list, LAMBDA x : x # m))

\* The body of the loop over sampled_pairs: the final_fragment cut from
\* fragment.
final_fragment(fragment, attractor_states, required_transient, required_attractor) ==
    LET transient_positions == positions_from(fragment, attractor_states, FALSE, 0)
        attractor_positions == positions_from(fragment, attractor_states, TRUE, 0)
        selected_transient_indices == last_elements(transient_positions, required_transient)
        selected_attractor_indices == first_elements(attractor_positions, required_attractor)
        final_indices == sorted(selected_transient_indices \o selected_attractor_indices)
    IN  [i \in 1..Len(final_indices) |-> fragment[final_indices[i] + 1]]

\* "Build candidate pairs (traj, offset)": a trajectory is named by its
\* start state.
candidates(long_trajectories, attractor_states, sampling_frequency, required_transient, required_attractor) ==
    {c \in (DOMAIN long_trajectories) \X (0..(sampling_frequency - 1)) :
        LET fragment == slice_from(long_trajectories[c[1]].trajectory, c[2],
                                   sampling_frequency)
            attractor_count == Len(positions_from(fragment, attractor_states, TRUE, 0))
            transient_count == Len(fragment) - attractor_count
        IN  /\ transient_count >= required_transient
            /\ attractor_count >= required_attractor}

\* The value sample_dataset_from_long_trajectories returns for the pairs
\* random.sample has drawn.
sampled_trajectories(long_trajectories, attractor_states, sampled_pairs, sampling_frequency, required_transient, required_attractor) ==
    [is_none |-> FALSE,
     trajectories |->
        [i \in 1..Len(sampled_pairs) |->
            final_fragment(
                slice_from(long_trajectories[sampled_pairs[i][1]].trajectory,
                           sampled_pairs[i][2], sampling_frequency),
                attractor_states, required_transient, required_attractor)]]

\* long_trajectories = generate_long_trajectories(network, state_info,
\* max_length, 'synchronous') on the state_info analyze() has returned.
GenerateLongTrajectories ==
    /\ phase = "sync"
    /\ sync_pc = "ready"
    /\ Len(sync_returned) = 1
    /\ \E max_length \in 0..MaxLength :
          /\ ev_op' = "generate_long_trajectories"
          /\ ev_in' = <<max_length, "synchronous">>
          /\ ev_out' = generate_long_trajectories(network, state_info, max_length)
    /\ phase' = "dataset"
    /\ UNCHANGED <<network, syncVars, tarjanVars, nxVars>>

\* sample_dataset_from_long_trajectories(long_trajectories, state_info,
\* mode, num_trajectories, trajectory_length, transient_fraction,
\* sampling_frequency): the set of the values the call can return, one for
\* every value of round and every list random.sample can draw.  The result
\* None is is_none.
sample_dataset_from_long_trajectories(long_trajectories, info, mode, num_trajectories, trajectory_length, transient_fraction, sampling_frequency) ==
    LET attractor_states == collect_attractor_states(info, mode)
    IN  UNION {
            LET required_attractor == trajectory_length - required_transient
                cands == candidates(long_trajectories, attractor_states,
                                    sampling_frequency, required_transient,
                                    required_attractor)
            IN  IF Cardinality(cands) < num_trajectories
                THEN {[is_none |-> TRUE, trajectories |-> <<>>]}
                ELSE {sampled_trajectories(
                          long_trajectories, attractor_states, sampled_pairs,
                          sampling_frequency, required_transient,
                          required_attractor) :
                        sampled_pairs \in random_sample(cands, num_trajectories)} :
            required_transient \in python_round(
                transient_fraction[1] * trajectory_length, transient_fraction[2])}

\* A call of sample_dataset_from_long_trajectories on the long trajectories
\* generate_long_trajectories has returned, with arguments of the documented
\* ranges, in synchronous mode.  ev_in holds the arguments but state_info.
SampleDataset ==
    /\ phase = "dataset"
    /\ ev_op = "generate_long_trajectories"
    /\ ev_in[2] = "synchronous"
    /\ \E num_trajectories \in 1..MaxNumTrajectories :
       \E trajectory_length \in 1..MaxTrajectoryLength :
       \E transient_fraction \in TransientFractions :
       \E sampling_frequency \in 1..MaxSamplingFrequency :
       \E result \in sample_dataset_from_long_trajectories(
                         ev_out, state_info, "synchronous", num_trajectories,
                         trajectory_length, transient_fraction,
                         sampling_frequency) :
          /\ ev_op' = "sample_dataset_from_long_trajectories"
          /\ ev_in' = <<ev_out, num_trajectories, trajectory_length,
                        transient_fraction, sampling_frequency, "synchronous">>
          /\ ev_out' = result
    /\ UNCHANGED <<network, phase, syncVars, tarjanVars, nxVars>>

(***************************************************************************)
(* The sampling loop of generate_and_sample_network.                       *)
(***************************************************************************)

\* The number of values of trajectory_lengths the loop goes through.
MaxTrajectoryLengths == 1

\* sampling_frequencies = [1, 2, 3], num_trajectories_list = [1, 2, 3] and
\* trajectory_lengths = [5, 10, 15, 20], each cut to its first values.
sampling_frequencies == SubSeq(<<1, 2, 3>>, 1, Min(MaxSamplingFrequency, 3))
num_trajectories_list == SubSeq(<<1, 2, 3>>, 1, Min(MaxNumTrajectories, 3))
trajectory_lengths == SubSeq(<<5, 10, 15, 20>>, 1, Min(MaxTrajectoryLengths, 4))

\* The k-th tuple (sample_frequency, n_traj, traj_len, transient_fraction) of
\* product(sampling_frequencies, num_trajectories_list, trajectory_lengths,
\* transient_fractions): the last list varies fastest.
product(k) ==
    LET d == Len(transient_fractions)
        c == Len(trajectory_lengths)
        b == Len(num_trajectories_list)
    IN  [sample_frequency |-> sampling_frequencies[((k - 1) \div (d * c * b)) + 1],
         n_traj |-> num_trajectories_list[(((k - 1) \div (d * c)) % b) + 1],
         traj_len |-> trajectory_lengths[(((k - 1) \div d) % c) + 1],
         transient_fraction |-> transient_fractions[((k - 1) % d) + 1]]

\* The number of iterations of the sampling loop.
ProductLen ==
    Len(sampling_frequencies) * Len(num_trajectories_list)
        * Len(trajectory_lengths) * Len(transient_fractions)

\* The state_info of the asynchronous analyzer that has run.
AsyncStateInfo == IF Len(tj_returned) > 0 THEN tj_state_info ELSE nx_state_info

\* One iteration of the loop over product(...): the call of
\* sample_dataset_from_long_trajectories with the next tuple.  A result None
\* is skipped ("continue"), any other is written to a file; the loop goes on
\* in both cases.  ev_in holds the arguments but state_info, and the number
\* of the iteration.
SamplingLoopStep ==
    /\ phase = "dataset"
    /\ \/ ev_op = "generate_long_trajectories"
       \/ /\ ev_op = "sample_dataset_from_long_trajectories"
          /\ Len(ev_in) = 7
          /\ ev_in[7] < ProductLen
    /\ LET long_trajectories ==
               IF ev_op = "generate_long_trajectories" THEN ev_out ELSE ev_in[1]
           mode == IF ev_op = "generate_long_trajectories" THEN ev_in[2] ELSE ev_in[6]
           info == IF mode = "synchronous" THEN state_info ELSE AsyncStateInfo
           k == IF ev_op = "generate_long_trajectories" THEN 1 ELSE ev_in[7] + 1
           args == product(k)
       IN  \E sampled_dataset \in sample_dataset_from_long_trajectories(
                                      long_trajectories, info, mode, args.n_traj,
                                      args.traj_len, args.transient_fraction,
                                      args.sample_frequency) :
              /\ ev_op' = "sample_dataset_from_long_trajectories"
              /\ ev_in' = <<long_trajectories, args.n_traj, args.traj_len,
                            args.transient_fraction, args.sample_frequency,
                            mode, k>>
              /\ ev_out' = sampled_dataset
    /\ UNCHANGED <<network, phase, syncVars, tarjanVars, nxVars>>

(***************************************************************************)
(* The programs: generate_and_sample_network and the main programs of the  *)
(* analyzers.                                                              *)
(***************************************************************************)

\* The sampling loop of the synchronous mode has made its last call.
LastSample ==
    /\ ev_op = "sample_dataset_from_long_trajectories"
    /\ Len(ev_in) = 7
    /\ ev_in[6] = "synchronous"
    /\ ev_in[7] = ProductLen

\* analyzer = AsyncAnalyzerNX(network); state_info = analyzer.analyze(), in
\* the asynchronous mode of generate_and_sample_network (after the sampling
\* loop of the synchronous mode, or first when do_synchronous is False) and
\* in test_async_nx.  networkx yields the SCCs in an order of its own: any
\* order is possible here.
NxAnalyze ==
    /\ \/ phase = "nx"
       \/ phase = "dataset" /\ LastSample
    /\ LET sccs == nx_attractor_sccs(network)
       IN  \E order \in Orderings(sccs) :
              /\ nx_attractors' = order
              /\ nx_state_info' = nx_analyze(network, order)
    /\ phase' = "asynchronous"
    /\ UNCHANGED <<network, syncVars, tarjanVars, evVars>>

(***************************************************************************)
(* generate_long_trajectories in asynchronous mode.                        *)
(***************************************************************************)

\* The largest max_length of the asynchronous mode.
MaxAsyncLength == 2

\* The largest number of iterations of "for _ in range(max_length)" one call
\* makes in the asynchronous mode, all start states together.
MaxAsyncSteps == 16

\* PySet_MINSIZE of CPython: the hash table of a new set has 8 slots.
PySet_MINSIZE == 8

\* LINEAR_PROBES of CPython 3: the slots after a taken slot that are tried
\* before the next jump.
LINEAR_PROBES == 9

\* PERTURB_SHIFT of CPython: the bits the perturbation loses at each jump.
PERTURB_SHIFT == 5

\* The interpreters the programs run under, by what they do with a set and
\* a dict: Python 2.7, for which the programs are written, Python 3.6, and
\* Python 3.7 and later.
Interpreters == {"2.7", "3.6", "3.7"}

\* A dict lists its keys in the order of their insertion.
InsertionOrdered == {"3.6", "3.7"}

RECURSIVE set_probe_27(_, _, _)
\* The slot CPython 2.7 puts a new element in when its own slot is taken:
\* i = (i << 2) + i + perturb + 1 until slot i & mask is free, perturb
\* losing PERTURB_SHIFT bits after each try.  Only i & mask is used, so i
\* is kept modulo the size of the table.
set_probe_27(table, i, perturb) ==
    LET j == (5 * i + perturb + 1) % Len(table)
    IN  IF table[j + 1] = None THEN j
        ELSE set_probe_27(table, j, perturb \div Pow2(PERTURB_SHIFT))

RECURSIVE set_probe_3(_, _, _)
\* The slot CPython 3 puts a new element in, from slot i on: slot i, then
\* the LINEAR_PROBES slots after it when the table has them, then the same
\* from slot (i * 5 + 1 + perturb) & mask with perturb shifted.
set_probe_3(table, i, perturb) ==
    LET probes == IF i + LINEAR_PROBES <= Len(table) - 1 THEN LINEAR_PROBES ELSE 0
        free == {j \in 0..probes : table[i + j + 1] = None}
        shifted == perturb \div Pow2(PERTURB_SHIFT)
    IN  IF free # {} THEN i + (CHOOSE j \in free : \A l \in free : j <= l)
        ELSE set_probe_3(table, (i * 5 + 1 + shifted) % Len(table), shifted)

\* The table after the integer x, which it does not hold, is put in: the
\* hash of a small integer is the integer, its own slot is x & mask.
set_insert(table, x, interpreter) ==
    LET i == x % Len(table)
        slot == IF interpreter = "2.7"
                THEN IF table[i + 1] = None THEN i ELSE set_probe_27(table, i, x)
                ELSE set_probe_3(table, i, x)
    IN  [table EXCEPT ![slot + 1] = x]

\* A set object with an empty table of size slots.  No element is ever
\* removed from an scc, so the fill of its table is used.
set_new(size) == [table |-> [slot \in 1..size |-> None], used |-> 0]

\* The set object after x, which it does not hold, is put in its table.
set_insert_clean(so, x, interpreter) ==
    [table |-> set_insert(so.table, x, interpreter), used |-> so.used + 1]

\* The table is made larger after an add() that leaves it fill elements:
\* two thirds of the slots are taken (2.7), of the slots but one (3.6), or
\* three fifths of the slots but one (3.7 and later).
set_grows(fill, size, interpreter) ==
    IF interpreter = "2.7" THEN fill * 3 >= size * 2
    ELSE IF interpreter = "3.6" THEN fill * 3 >= (size - 1) * 2
    ELSE fill * 5 >= (size - 1) * 3

RECURSIVE set_newsize(_, _)
\* The first size, doubling from size, that is larger than minused.
set_newsize(size, minused) ==
    IF size > minused THEN size ELSE set_newsize(size * 2, minused)

RECURSIVE set_insert_all(_, _, _)
\* The elements of the list that so does not hold yet, its first so.used
\* elements being in, put into so one after the other.
set_insert_all(so, elements, interpreter) ==
    IF so.used = Len(elements) THEN so
    ELSE set_insert_all(set_insert_clean(so, elements[so.used + 1], interpreter),
                        elements, interpreter)

\* The elements of a table from its first slot to its last.
set_elements(table) == SelectSeq(table, LAMBDA x : x # None)

\* set_table_resize(so, so->used * 4) of CPython: the new table has the
\* first size above four times used and the elements are put into it slot
\* after slot of the old table.
set_table_resize(so, interpreter) ==
    set_insert_all(set_new(set_newsize(PySet_MINSIZE, so.used * 4)),
                   set_elements(so.table), interpreter)

\* scc.add(x) for an x the set does not hold.
set_add(so, x, interpreter) ==
    LET added == set_insert_clean(so, x, interpreter)
    IN  IF set_grows(added.used, Len(added.table), interpreter)
        THEN set_table_resize(added, interpreter)
        ELSE added

RECURSIVE set_add_all(_, _, _)
\* scc.add(x) for each x of the list that so does not hold yet, its first
\* so.used elements being in.
set_add_all(so, adds, interpreter) ==
    IF so.used = Len(adds) THEN so
    ELSE set_add_all(set_add(so, adds[so.used + 1], interpreter), adds, interpreter)

\* "scc = set()" and scc.add(x) for each x of the list in turn.
set_build(adds, interpreter) == set_add_all(set_new(PySet_MINSIZE), adds, interpreter)

\* "for state in scc" for the set built by these add() calls: the elements
\* from the first slot of its table to the last.
set_iteration(adds, interpreter) ==
    set_elements(set_build(adds, interpreter).table)

RECURSIVE pop_order(_, _)
\* The states of an SCC in the order the while loop of _strongconnect pops
\* and adds them: from the top of the stack down, the latest index first.
pop_order(scc, idx) ==
    IF scc = {} THEN <<>>
    ELSE LET w == CHOOSE x \in scc : \A y \in scc : idx[x] >= idx[y]
         IN  <<w>> \o pop_order(scc \ {w}, idx)

\* The slots the table of a set of n elements built by add() has.
table_size(n, interpreter) ==
    Len(set_build(range_list(n), interpreter).table)

RECURSIVE increasing(_)
\* The elements of a set of integers in increasing order.
increasing(S) ==
    IF S = {} THEN <<>>
    ELSE LET m == CHOOSE x \in S : \A y \in S : x <= y
         IN  <<m>> \o increasing(S \ {m})

\* "for state in scc" for a set networkx built: the order of its add()
\* calls is networkx's own.  When no two elements have the same slot every
\* order of the calls gives the same table; any order of the elements
\* otherwise.
nx_set_iteration(S, interpreter) ==
    LET size == table_size(Cardinality(S), interpreter)
    IN  IF \A x, y \in S : x # y => x % size # y % size
        THEN {set_iteration(increasing(S), interpreter)}
        ELSE Orderings(S)

\* For each of self.attractors of the analyzer that has run, the orders in
\* which "for state in scc" can go through it, for each interpreter whose
\* dict keeps the order of insertion.
AttractorIterations ==
    [interpreter \in InsertionOrdered |->
        IF Len(tj_returned) > 0
        THEN [k \in 1..Len(attractors) |->
                 {set_iteration(pop_order(attractors[k], indices), interpreter)}]
        ELSE [k \in 1..Len(nx_attractors) |->
                 nx_set_iteration(nx_attractors[k], interpreter)]]

RECURSIVE attractor_keys(_, _)
\* The orders in which analyze() can insert the keys of the attractor
\* states in its loop over self.attractors, from the k-th attractor on;
\* iterations[k] holds the orders of "for state in scc" for the k-th.
attractor_keys(iterations, k) ==
    IF k > Len(iterations) THEN {<<>>}
    ELSE {first \o rest : first \in iterations[k],
                          rest \in attractor_keys(iterations, k + 1)}

\* The lists all_states = list(state_info.keys()) can be for the state_info
\* of an asynchronous analyzer.  Under Python 2.7 a dict of the keys
\* 0 .. 2^N - 1 lists them in increasing order; under the interpreters of
\* InsertionOrdered in the order of insertion: the attractor states first,
\* then the other states in increasing order.  iterations[interpreter] is
\* the sequence attractor_keys takes.
all_states(iterations, num_states) ==
    {range_list(num_states)}
        \cup UNION {{first \o SelectSeq(range_list(num_states),
                                        LAMBDA state : state \notin SeqToSet(first)) :
                        first \in attractor_keys(iterations[interpreter], 1)} :
                      interpreter \in InsertionOrdered}

\* generate_long_trajectories(network, state_info, max_length,
\* 'asynchronous') is called: all_states = list(state_info.keys()),
\* trajectories = [].  The state_info is that of AsyncAnalyzerNX in
\* generate_and_sample_network, and max_length is the one of the
\* synchronous mode when that mode has run.  ev_out holds the local
\* variables of the call; pc is "for" between two iterations of "for
\* start_state in all_states" and "range" inside one.
AsyncGenerateCall ==
    /\ \/ phase = "asynchronous"
       \/ phase = "tarjan" /\ tj_pc = "ready" /\ Len(tj_returned) = 1
    /\ \E max_length \in 0..MaxAsyncLength :
       \E keys \in all_states(AttractorIterations, NumStates(network)) :
          /\ max_length * NumStates(network) <= MaxAsyncSteps
          /\ ev_op = "sample_dataset_from_long_trajectories"
                => max_length = Len(ev_in[1][0].trajectory)
          /\ ev_op' = "generate_long_trajectories"
          /\ ev_in' = <<max_length, "asynchronous">>
          /\ ev_out' = [all_states |-> keys,
                        trajectories |-> <<>>,
                        pc |-> "for",
                        traj |-> <<>>,
                        current |-> None,
                        transient_count |-> 0,
                        attractor_count |-> 0]
    /\ phase' = "trajectories"
    /\ UNCHANGED <<network, syncVars, tarjanVars, nxVars>>

\* An iteration of "for start_state in all_states" starts: traj = [],
\* current = start_state, both counts 0.
AsyncTrajectoryStart ==
    /\ phase = "trajectories"
    /\ ev_out.pc = "for"
    /\ Len(ev_out.trajectories) < Len(ev_out.all_states)
    /\ ev_out' = [ev_out EXCEPT
                     !.pc = "range",
                     !.traj = <<>>,
                     !.current = ev_out.all_states[Len(ev_out.trajectories) + 1],
                     !.transient_count = 0,
                     !.attractor_count = 0]
    /\ UNCHANGED <<network, phase, ev_op, ev_in, syncVars, tarjanVars, nxVars>>

\* One iteration of "for _ in range(max_length)": current is appended and
\* counted, then current = compute_next_network_state(current,
\* synchronous=False), for every node random.randint(0, number_of_nodes - 1)
\* can return.
AsyncTrajectoryStep ==
    /\ phase = "trajectories"
    /\ ev_out.pc = "range"
    /\ Len(ev_out.traj) < ev_in[1]
    /\ LET attractor_states == collect_attractor_states(AsyncStateInfo, ev_in[2])
           in_attractor == ev_out.current \in attractor_states
       IN  \E i \in 0..(network.number_of_nodes - 1) :
              ev_out' = [ev_out EXCEPT
                            !.traj = Append(ev_out.traj, ev_out.current),
                            !.attractor_count = IF in_attractor THEN @ + 1 ELSE @,
                            !.transient_count = IF in_attractor THEN @ ELSE @ + 1,
                            !.current = compute_next_network_state_async(
                                            network, ev_out.current, i)]
    /\ UNCHANGED <<network, phase, ev_op, ev_in, syncVars, tarjanVars, nxVars>>

\* The loop over range(max_length) is over: the dict of the trajectory is
\* appended to trajectories.
AsyncTrajectoryEnd ==
    /\ phase = "trajectories"
    /\ ev_out.pc = "range"
    /\ Len(ev_out.traj) = ev_in[1]
    /\ ev_out' = [ev_out EXCEPT
                     !.pc = "for",
                     !.trajectories =
                         Append(@, [trajectory |-> ev_out.traj,
                                    transient_count |-> ev_out.transient_count,
                                    attractor_count |-> ev_out.attractor_count])]
    /\ UNCHANGED <<network, phase, ev_op, ev_in, syncVars, tarjanVars, nxVars>>

\* "return trajectories" after the last start state.
AsyncGenerateReturn ==
    /\ phase = "trajectories"
    /\ ev_out.pc = "for"
    /\ Len(ev_out.trajectories) = Len(ev_out.all_states)
    /\ ev_out' = ev_out.trajectories
    /\ phase' = "dataset"
    /\ UNCHANGED <<network, ev_op, ev_in, syncVars, tarjanVars, nxVars>>

\* The network is built and no analyzer yet: network = BooleanNetwork(n) in
\* generate_and_sample_network, or the network of a main program.  The
\* first analyzer made is a StateSpaceAnalyzer, an AsyncAnalyzerTarjan or an
\* AsyncAnalyzerNX; the two networks of ToggleNodes nodes a caller builds
\* from its own transitions are given to an AsyncAnalyzerTarjan.  When
\* BooleanNetwork(n) raises ValueError the program ends there.
Init ==
    /\ \/ network \in Networks /\ phase \in {"sync", "tarjan", "nx"}
       \/ network \in {ToggleNetwork, GrayPathNetwork} /\ phase = "tarjan"
       \/ network \in FailedNetworks /\ phase = "ValueError"
    /\ SyncInit
    /\ TarjanInit
    /\ NxInit
    /\ EvInit

Next ==
    \/ SyncNew
    \/ SyncAnalyzeCall
    \/ SyncSkip
    \/ SyncWalkStart
    \/ SyncWalkCycle
    \/ SyncWalkKnown
    \/ SyncWalkStep
    \/ SyncAnalyzeReturn
    \/ GenerateLongTrajectories
    \/ SamplingLoopStep
    \/ NxAnalyze
    \/ AsyncGenerateCall
    \/ AsyncTrajectoryStart
    \/ AsyncTrajectoryStep
    \/ AsyncTrajectoryEnd
    \/ AsyncGenerateReturn
    \/ TarjanNew
    \/ TarjanAnalyzeCall
    \/ TarjanSkip
    \/ TarjanVisit
    \/ DfsRecurse
    \/ DfsRecursionError
    \/ DfsOnStack
    \/ DfsCross
    \/ DfsRoot
    \/ DfsRootRecursionError
    \/ DfsReturn
    \/ TarjanAnalyzeReturn

Spec == Init /\ [][Next]_vars

\* The steps of StateSpaceAnalyzer.
SyncSteps ==
    \/ SyncNew
    \/ SyncAnalyzeCall
    \/ SyncSkip
    \/ SyncWalkStart
    \/ SyncWalkCycle
    \/ SyncWalkKnown
    \/ SyncWalkStep
    \/ SyncAnalyzeReturn

\* The steps of AsyncAnalyzerTarjan.
TarjanSteps ==
    \/ TarjanNew
    \/ TarjanAnalyzeCall
    \/ TarjanSkip
    \/ TarjanVisit
    \/ DfsRecurse
    \/ DfsRecursionError
    \/ DfsOnStack
    \/ DfsCross
    \/ DfsRoot
    \/ DfsRootRecursionError
    \/ DfsReturn
    \/ TarjanAnalyzeReturn

\* The runs of the two analyzers alone, as in the main programs of
\* StateSpaceAnalysisSynchronous.py and AttractorsAsynchronousTarjan.py: an
\* analyzer is made for the network and analyze() is called.
InitAnalyze == Init /\ phase \in {"sync", "tarjan"}

NextAnalyze == SyncSteps \/ TarjanSteps

SpecAnalyze == InitAnalyze /\ [][NextAnalyze]_vars

\* The calls of sample_dataset_from_long_trajectories on the long
\* trajectories of an analyzed network, for arguments of the documented
\* ranges (the sampling loop uses some of them only).
NextSampleDataset ==
    \/ SyncSteps
    \/ GenerateLongTrajectories
    \/ SampleDataset

SpecSampleDataset == Init /\ [][NextSampleDataset]_vars

(***************************************************************************)
(* Properties.                                                             *)
(***************************************************************************)

\* StateSpaceAnalyzer.analyze() has just returned.
SyncReturned == phase = "sync" /\ sync_pc = "ready" /\ Len(sync_returned) > 0

\* AsyncAnalyzerTarjan.analyze() has just returned.
TarjanReturned == phase = "tarjan" /\ tj_pc = "ready" /\ Len(tj_returned) > 0

\* The synchronous functional graph: the pairs (s, next state of s).
SyncGraph(net) ==
    {<<s, compute_next_network_state_sync(net, s)>> : s \in States(net)}

\* The successor of s in the functional graph g.
SyncNext(g, s) == (CHOOSE e \in g : e[1] = s)[2]

RECURSIVE Iterate(_, _, _)
\* The state k synchronous steps after s.
Iterate(g, s, k) == IF k = 0 THEN s ELSE Iterate(g, SyncNext(g, s), k - 1)

RECURSIVE Orbit(_, _, _)
\* The states 0, 1, ..., k synchronous steps after s.
Orbit(g, s, k) == IF k = 0 THEN {s} ELSE {s} \cup Orbit(g, SyncNext(g, s), k - 1)

\* s lies on a cycle of the functional graph g, which has n states.
OnCycle(g, s, n) == s \in Orbit(g, SyncNext(g, s), n)

\* The terminal strongly connected components of the asynchronous graph.
TerminalSccs(net) ==
    LET edges == nx_edges(net)
    IN  {scc \in scc_partition(edges, States(net)) :
            \A e \in edges : e[1] \in scc => e[2] \in scc}

\* C1: after StateSpaceAnalyzer.analyze() and after
\* AsyncAnalyzerTarjan.analyze() return, state_info has a record for every
\* state 0..2^N-1 and no other key.
C1_Completeness ==
    /\ SyncReturned =>
          /\ DOMAIN state_info = States(network)
          /\ DOMAIN sync_returned[Len(sync_returned)] = States(network)
    /\ TarjanReturned =>
          /\ DOMAIN tj_state_info = States(network)
          /\ DOMAIN tj_returned[Len(tj_returned)] = States(network)

\* StateSpaceAnalyzer.analyze() has returned for a network of several nodes
\* in which a walk was propagated from a known state.
C1_Witness ==
    /\ SyncReturned
    /\ network.number_of_nodes >= 2
    /\ \E s \in DOMAIN state_info : state_info[s].distance >= 2

\* C2: after StateSpaceAnalyzer.analyze(), from every state s exactly
\* distance(s) synchronous steps lead to a state of distance 0, and every
\* state reached from there on has distance 0 and the attractor_id of s.
C2_SyncReachability ==
    SyncReturned =>
        LET g == SyncGraph(network)
        IN  \A s \in States(network) :
                LET t == Iterate(g, s, state_info[s].distance)
                IN  /\ state_info[t].distance = 0
                    /\ \A u \in Orbit(g, t, NumStates(network)) :
                          /\ state_info[u].distance = 0
                          /\ state_info[u].attractor_id = state_info[s].attractor_id

\* analyze() has returned and some state lies three or more steps away from
\* a cycle of two or more states.
C2_Witness ==
    /\ SyncReturned
    /\ \E s \in States(network) :
          /\ state_info[s].distance >= 3
          /\ Cardinality({u \in States(network) :
                 /\ state_info[u].is_attractor
                 /\ state_info[u].attractor_id = state_info[s].attractor_id}) >= 2

\* C3: after AsyncAnalyzerTarjan.analyze(), every asynchronous successor of
\* an attractor state is an attractor state with the same attractor_id.
C3_AsyncClosure ==
    TarjanReturned =>
        \A s \in States(network) :
            tj_state_info[s].is_attractor =>
                \A succ \in SeqToSet(async_successors(network, s)) :
                    /\ tj_state_info[succ].is_attractor
                    /\ tj_state_info[succ].attractor_id = tj_state_info[s].attractor_id

\* analyze() has returned, an attractor state has a successor and some state
\* is transient.
C3_Witness ==
    /\ TarjanReturned
    /\ \E s \in States(network) :
          /\ tj_state_info[s].is_attractor
          /\ async_successors(network, s) # <<>>
    /\ \E s \in States(network) : ~tj_state_info[s].is_attractor

\* C4: after StateSpaceAnalyzer.analyze(), a state is marked is_attractor
\* exactly when it lies on a cycle of the synchronous functional graph, and
\* two attractor states share an attractor_id exactly when they lie on the
\* same cycle.
C4_SyncExactness ==
    SyncReturned =>
        LET g == SyncGraph(network)
        IN  /\ \A s \in States(network) :
                  state_info[s].is_attractor <=> OnCycle(g, s, NumStates(network))
            /\ \A s \in States(network) :
                  state_info[s].is_attractor =>
                      LET cycle == Orbit(g, s, NumStates(network))
                      IN  \A t \in States(network) :
                              state_info[t].is_attractor =>
                                  ((state_info[s].attractor_id
                                       = state_info[t].attractor_id) <=> t \in cycle)

\* analyze() has returned with two cycles, one of them of two or more
\* states, and a transient state.
C4_Witness ==
    /\ SyncReturned
    /\ next_attractor_id >= 2
    /\ \E s, t \in States(network) :
          /\ s # t
          /\ state_info[s].is_attractor /\ state_info[t].is_attractor
          /\ state_info[s].attractor_id = state_info[t].attractor_id
    /\ \E s \in States(network) : ~state_info[s].is_attractor

\* C5: after AsyncAnalyzerTarjan.analyze(), self.attractors holds exactly
\* the strongly connected components of the asynchronous graph that have no
\* edge leaving them, each once.
C5_AsyncAttractorRule ==
    TarjanReturned =>
        /\ SeqToSet(attractors) = TerminalSccs(network)
        /\ \A i, j \in 1..Len(attractors) : attractors[i] = attractors[j] => i = j

\* analyze() has returned with two or more attractors, one of them of
\* several states, and an SCC of several states that is not an attractor.
C5_Witness ==
    /\ TarjanReturned
    /\ Len(attractors) >= 2
    /\ \E i \in 1..Len(attractors) : Cardinality(attractors[i]) >= 2
    /\ \E i \in 1..Len(popped) :
          /\ Cardinality(popped[i]) >= 2
          /\ popped[i] \notin SeqToSet(attractors)

\* C6: AsyncAnalyzerNX and AsyncAnalyzerTarjan mark the same states as
\* attractors and group them into the same attractor sets, states with no
\* successor and no predecessor included.
C6_AnalyzersAgree ==
    TarjanReturned =>
        \A order \in Orderings(nx_attractor_sccs(network)) :
            /\ \A s \in States(network) :
                  nx_analyze(network, order)[s].is_attractor
                      = tj_state_info[s].is_attractor
            /\ SeqToSet(order) = SeqToSet(attractors)

\* C7: a second analyze() on the same analyzer and analyze() on a fresh
\* analyzer return the records the first analyze() returned, for the
\* synchronous and for the Tarjan analyzer.
C7_Idempotence ==
    /\ \A i \in 1..Len(sync_returned) : sync_returned[i] = sync_returned[1]
    /\ \A i \in 1..Len(tj_returned) : tj_returned[i] = tj_returned[1]

\* A StateSpaceAnalyzer was analyzed Reruns times and a fresh one once
\* more, on a network with several attractors and a transient state.
C7_Witness ==
    /\ SyncReturned
    /\ Len(sync_returned) = Reruns + 1
    /\ next_attractor_id >= 2
    /\ \E s \in States(network) : state_info[s].distance >= 1

\* The network has one node, which has no parents.
TrivialNetwork ==
    /\ network.number_of_nodes = 1
    /\ Len(network.transitions) = 1
    /\ network.transitions[1].parents = <<>>

\* C8: for the 1-node network whose node has no parents, the synchronous
\* and the Tarjan analyzer classify 0 and 1 as attractors with distinct ids.
C8_TrivialFixedPoint ==
    TrivialNetwork =>
        /\ SyncReturned =>
              /\ state_info[0].is_attractor /\ state_info[1].is_attractor
              /\ state_info[0].attractor_id # state_info[1].attractor_id
              /\ state_info[0].distance = 0 /\ state_info[1].distance = 0
        /\ TarjanReturned =>
              /\ tj_state_info[0].is_attractor /\ tj_state_info[1].is_attractor
              /\ tj_state_info[0].attractor_id # tj_state_info[1].attractor_id
              /\ SeqToSet(attractors) = {{0}, {1}}

\* StateSpaceAnalyzer.analyze() has returned for the 1-node network without
\* parents whose unused truth table holds 1.
C8_Witness ==
    /\ TrivialNetwork
    /\ network.transitions[1].table = <<1>>
    /\ SyncReturned

\* C9: a network with a parent index outside 0..N-1 or a truth table whose
\* length is not 2^(number of parents) is never constructed, so no analyzer
\* is made for one and no analysis starts on one.
C9_ValidatedAtConstruction ==
    phase \notin {"unbuilt", "ValueError"} => ValidNetwork(network)

RECURSIVE LittleEndianIndex(_, _, _)
\* The sum over k of bits[parents[k]] * 2^k, from position k on.
LittleEndianIndex(parents, bits, k) ==
    IF k >= Len(parents) THEN 0
    ELSE bits[parents[k + 1] + 1] * Pow2(k) + LittleEndianIndex(parents, bits, k + 1)

\* C10: compute_next_node_state(i, bits) is bits[i] when node i has no
\* parents, whatever its truth table, and otherwise the truth table entry at
\* the little-endian index of the parents' values in parent-list order.
C10_NextNodeState ==
    ev_op = "compute_next_node_state" =>
        LET i == ev_in[1]
            bits == ev_in[2]
            tr == network.transitions[i + 1]
        IN  ev_out = IF tr.parents = <<>>
                     THEN bits[i + 1]
                     ELSE tr.table[LittleEndianIndex(tr.parents, bits, 0) + 1]

\* compute_next_node_state returned the value of a node without parents
\* that differs from its truth table entry.
C10_WitnessNoParents ==
    /\ ev_op = "compute_next_node_state"
    /\ network.transitions[ev_in[1] + 1].parents = <<>>
    /\ ev_out # network.transitions[ev_in[1] + 1].table[1]

\* Bit i of the integer x.
Bit(x, i) == (x \div Pow2(i)) % 2

\* The bits of the integer x, bit i at position i + 1.
BitsOf(net, x) == [k \in 1..net.number_of_nodes |-> Bit(x, k - 1)]

\* C11: compute_next_network_state(s, synchronous=True) returns a state of
\* 0..2^N-1 whose bit i is compute_next_node_state(i, bits of s) for every
\* node i, every node being evaluated on the bits of s itself.
C11_SyncNextState ==
    ev_op = "compute_next_network_state" =>
        LET s == ev_in[1]
        IN  /\ ev_out \in States(network)
            /\ \A i \in 0..(network.number_of_nodes - 1) :
                  Bit(ev_out, i) = compute_next_node_state(network, i, BitsOf(network, s))

\* The synchronous next state was computed in a step in which a node changes
\* and a later node has that node as a parent.
C11_Witness ==
    /\ ev_op = "compute_next_network_state"
    /\ \E i, j \in 0..(network.number_of_nodes - 1) :
          /\ j < i
          /\ j \in SeqToSet(network.transitions[i + 1].parents)
          /\ Bit(ev_out, j) # Bit(ev_in[1], j)

\* The nodes in which the states x and y differ.
DiffBits(net, x, y) == {i \in 0..(net.number_of_nodes - 1) : Bit(x, i) # Bit(y, i)}

\* C12: _async_successors(s) has no duplicates, does not contain s, has at
\* most N elements, and each element differs from s in exactly one bit i,
\* whose new value is compute_next_node_state(i, bits of s).
C12_AsyncSuccessors ==
    ev_op = "_async_successors" =>
        LET s == ev_in[1]
            succs == ev_out
        IN  /\ \A a, b \in 1..Len(succs) : succs[a] = succs[b] => a = b
            /\ s \notin SeqToSet(succs)
            /\ Len(succs) <= network.number_of_nodes
            /\ \A k \in 1..Len(succs) :
                  \E i \in 0..(network.number_of_nodes - 1) :
                      /\ DiffBits(network, succs[k], s) = {i}
                      /\ Bit(succs[k], i)
                            = compute_next_node_state(network, i, BitsOf(network, s))

\* _async_successors returned several successors for a state in which some
\* node keeps its value.
C12_Witness ==
    /\ ev_op = "_async_successors"
    /\ Len(ev_out) >= 2
    /\ Len(ev_out) < network.number_of_nodes

\* C13: binary_to_int(int_to_binary(s)) = s for every state s, and
\* int_to_binary(binary_to_int(b)) = b for every list b of N bits, the
\* element at index i being bit i (weight 2^i) of the integer.
C13_CodecRoundTrip ==
    /\ ev_op = "int_to_binary" =>
          /\ binary_to_int(ev_out) = ev_in[1]
          /\ Len(ev_out) = network.number_of_nodes
          /\ \A i \in 0..(network.number_of_nodes - 1) : ev_out[i + 1] = Bit(ev_in[1], i)
    /\ ev_op = "binary_to_int" =>
          /\ int_to_binary(network, ev_out) = ev_in[1]
          /\ ev_out \in States(network)
          /\ \A i \in 0..(network.number_of_nodes - 1) : Bit(ev_out, i) = ev_in[1][i + 1]

\* int_to_binary returned a list whose first and last bit differ.
C13_Witness ==
    /\ ev_op = "int_to_binary"
    /\ network.number_of_nodes >= 2
    /\ ev_out[1] # ev_out[network.number_of_nodes]

\* C14: after StateSpaceAnalyzer.analyze(), every record has an attractor_id
\* that is not None and an integer distance, the distance is 0 exactly when
\* is_attractor is True and at least 1 exactly when it is False, and
\* collect_attractor_states selects the states with is_attractor True.
C14_SyncRecordShape ==
    SyncReturned =>
        /\ \A s \in States(network) :
              /\ DOMAIN state_info[s] = {"is_attractor", "attractor_id", "distance"}
              /\ state_info[s].attractor_id \in Nat
              /\ state_info[s].attractor_id # None
              /\ state_info[s].distance \in Nat
              /\ state_info[s].is_attractor \in BOOLEAN
              /\ (state_info[s].distance = 0) <=> state_info[s].is_attractor
              /\ (state_info[s].distance >= 1) <=> ~state_info[s].is_attractor
        /\ collect_attractor_states_synchronous(state_info)
              = {s \in States(network) : state_info[s].is_attractor}

\* analyze() has returned with states at distance 0, 1 and 2 or more.
C14_Witness ==
    /\ SyncReturned
    /\ collect_attractor_states_synchronous(state_info) # {}
    /\ \E s \in States(network) : state_info[s].distance = 1
    /\ \E s \in States(network) : state_info[s].distance >= 2

\* C15: after AsyncAnalyzerTarjan.analyze(), a state outside every attractor
\* SCC has is_attractor False and attractor_id None, a state inside one has
\* is_attractor True and an integer attractor_id, and no record has a
\* distance field.
C15_AsyncRecordShape ==
    TarjanReturned =>
        LET in_attractor == UNION TerminalSccs(network)
        IN  \A s \in States(network) :
                /\ DOMAIN tj_state_info[s] = {"is_attractor", "attractor_id"}
                /\ s \in in_attractor =>
                      /\ tj_state_info[s].is_attractor = TRUE
                      /\ tj_state_info[s].attractor_id \in Nat
                      /\ tj_state_info[s].attractor_id # None
                /\ s \notin in_attractor =>
                      /\ tj_state_info[s].is_attractor = FALSE
                      /\ tj_state_info[s].attractor_id = None

\* analyze() has returned with a transient state, an attractor of several
\* states and a second attractor.
C15_Witness ==
    /\ TarjanReturned
    /\ \E s \in States(network) : tj_state_info[s].attractor_id = None
    /\ \E s, t \in States(network) :
          /\ s # t
          /\ tj_state_info[s].attractor_id # None
          /\ tj_state_info[s].attractor_id = tj_state_info[t].attractor_id
    /\ \E s \in States(network) : tj_state_info[s].attractor_id >= 1

\* StateSpaceAnalyzer.analyze() is running.
SyncRunning == phase = "sync" /\ sync_pc \in {"loop", "walk"}

\* AsyncAnalyzerTarjan.analyze() is running.
TarjanRunning == phase = "tarjan" /\ tj_pc \in {"loop", "dfs"}

\* An upper bound on the steps StateSpaceAnalyzer.analyze() has left: the
\* iterations of the for loop not yet started, each with a walk of at most
\* 2^N appended states and a closing step, and the rest of the running walk.
SyncVariant ==
    (NumStates(network) - sync_state) * (NumStates(network) + 2)
        + (IF sync_pc = "walk" THEN NumStates(network) - Len(path)
                               ELSE NumStates(network) + 1)

\* An upper bound on the steps the first i activations of _strongconnect
\* have left in their own for loops: a state has at most N successors, and
\* the return is one more step.  The sum over the activations is counted as
\* a set of pairs <<activation, step left>>.
FramesWork(i) ==
    Cardinality({p \in (1..i) \X (1..(network.number_of_nodes + 1)) :
                    p[2] <= network.number_of_nodes + 1 - frames[p[1]].k})

\* An upper bound on the steps the first for loop of
\* AsyncAnalyzerTarjan.analyze() has left: its own iterations, N + 2 steps
\* for each state _strongconnect was not yet called on (self.index counts
\* the calls), and the rest of the running activations.
TarjanVariant ==
    (NumStates(network) - tj_state)
        + (NumStates(network) - index) * (network.number_of_nodes + 2)
        + FramesWork(Len(frames))

\* The running AsyncAnalyzerTarjan.analyze() has a next step that is not the
\* end by an exception: a step of its loops is enabled, the steps that call
\* _strongconnect and the step of an SCC root being told by their conditions.
TarjanHasStep ==
    \/ ENABLED (TarjanSkip \/ DfsOnStack \/ DfsCross \/ DfsReturn \/ TarjanAnalyzeReturn)
    \/ /\ tj_pc = "loop"
       /\ tj_state < NumStates(network)
       /\ tj_state \notin DOMAIN indices
    \/ /\ tj_pc = "dfs"
       /\ TopFrame.k < Len(TopFrame.succs)
       /\ NextSucc \notin DOMAIN indices
       /\ \E limits \in KnownLimits : Len(frames) + 1 <= limits[1]
    \/ /\ tj_pc = "dfs"
       /\ TopFrame.k >= Len(TopFrame.succs)
       /\ lowlink[TopFrame.state] = indices[TopFrame.state]
       /\ TopFrame.state \in SeqToSet(stack)
       /\ \E limits \in KnownLimits : Len(frames) <= limits[2]

\* C16: a walk of _analyze_from_state appends at most 2^N states to its
\* path; while an analyze() of either analyzer runs, a next step exists
\* that is not the end by an exception, and every step lowers a natural
\* number, so analyze() returns; when AsyncAnalyzerTarjan.analyze() returns,
\* _strongconnect has been called exactly once on each state.
C16_Termination ==
    /\ [](tj_pc # "RecursionError")
    /\ [](sync_pc = "walk" => Len(path) <= NumStates(network))
    /\ [](SyncRunning => SyncVariant >= 0 /\ ENABLED SyncSteps)
    /\ [][SyncRunning /\ SyncRunning' => SyncVariant' < SyncVariant]_vars
    /\ [](TarjanRunning => TarjanVariant >= 0 /\ TarjanHasStep)
    /\ [][TarjanRunning /\ TarjanRunning' => TarjanVariant' < TarjanVariant]_vars
    /\ [](\A s \in DOMAIN strongconnect_calls : strongconnect_calls[s] <= 1)
    /\ [](TarjanReturned =>
              /\ DOMAIN strongconnect_calls = States(network)
              /\ \A s \in States(network) : strongconnect_calls[s] = 1)

\* Every AsyncAnalyzerTarjan.analyze() call of the run has returned, for a
\* network of several nodes in which _strongconnect called itself.
C16_Witness ==
    /\ TarjanReturned
    /\ Len(tj_returned) = Reruns + 1
    /\ network.number_of_nodes >= 2
    /\ \E i \in 1..Len(popped) : Cardinality(popped[i]) >= 2

\* C17: for every network, AsyncAnalyzerTarjan.analyze() returns with a
\* non-empty self.attractors and StateSpaceAnalyzer.analyze() returns with
\* at least one attractor registered.
C17_AttractorExists ==
    network.number_of_nodes >= 1 =>
        /\ TarjanReturned =>
              /\ Len(attractors) >= 1
              /\ \E s \in States(network) : tj_state_info[s].is_attractor
        /\ SyncReturned =>
              /\ next_attractor_id >= 1
              /\ \E s \in States(network) : state_info[s].is_attractor

\* AsyncAnalyzerTarjan.analyze() has returned with exactly one attractor,
\* for a network of several nodes.
C17_Witness ==
    /\ TarjanReturned
    /\ Len(attractors) = 1
    /\ network.number_of_nodes >= 2

\* The states with an asynchronous edge into s.
AsyncPredecessors(net, s) ==
    {t \in States(net) : s \in SeqToSet(async_successors(net, t))}

\* C18: after AsyncAnalyzerTarjan.analyze(), every state s without
\* asynchronous successors is an attractor state, {s} is one of
\* self.attractors and no other state has the attractor_id of s.
C18_ZeroSuccessorRule ==
    TarjanReturned =>
        \A s \in States(network) :
            async_successors(network, s) = <<>> =>
                /\ tj_state_info[s].is_attractor
                /\ tj_state_info[s].attractor_id \in Nat
                /\ {s} \in SeqToSet(attractors)
                /\ \A t \in States(network) \ {s} :
                      tj_state_info[t].attractor_id # tj_state_info[s].attractor_id

\* analyze() has returned for a network with a state that has neither
\* successors nor predecessors and a state without successors that has a
\* predecessor.
C18_Witness ==
    /\ TarjanReturned
    /\ \E s \in States(network) :
          /\ async_successors(network, s) = <<>>
          /\ AsyncPredecessors(network, s) = {}
    /\ \E s \in States(network) :
          /\ async_successors(network, s) = <<>>
          /\ AsyncPredecessors(network, s) # {}

\* C19: after AsyncAnalyzerTarjan.analyze(), from every state marked
\* is_attractor False a path of asynchronous successor edges leads to a
\* state marked is_attractor True; after StateSpaceAnalyzer.analyze(), the
\* synchronous orbit of every state marked is_attractor False contains a
\* state marked is_attractor True.
C19_TransientsReachAttractor ==
    /\ TarjanReturned =>
          LET edges == nx_edges(network)
          IN  \A s \in States(network) :
                  ~tj_state_info[s].is_attractor =>
                      \E t \in Reachable(edges, s) : tj_state_info[t].is_attractor
    /\ SyncReturned =>
          LET g == SyncGraph(network)
          IN  \A s \in States(network) :
                  ~state_info[s].is_attractor =>
                      \E t \in Orbit(g, s, NumStates(network)) : state_info[t].is_attractor

\* AsyncAnalyzerTarjan.analyze() has returned and some transient state has
\* only transient successors.
C19_Witness ==
    /\ TarjanReturned
    /\ \E s \in States(network) :
          /\ ~tj_state_info[s].is_attractor
          /\ \A succ \in SeqToSet(async_successors(network, s)) :
                ~tj_state_info[succ].is_attractor

\* The smallest element of a non-empty set of integers.
MinOf(S) == CHOOSE m \in S : \A x \in S : m <= x

\* C20: after StateSpaceAnalyzer.analyze(), the attractor ids in use are
\* 0..k-1 for the k cycles of the synchronous graph, and cycle a has a
\* smaller id than cycle b exactly when the smallest state whose orbit ends
\* in a is smaller than the smallest state whose orbit ends in b.
C20_SyncIdOrder ==
    SyncReturned =>
        LET g == SyncGraph(network)
            n == NumStates(network)
            cycles == {Orbit(g, s, n) : s \in {u \in States(network) : OnCycle(g, u, n)}}
            basin(c) == back_closure(g, c, c)
            id(c) == state_info[MinOf(c)].attractor_id
        IN  /\ {state_info[s].attractor_id : s \in States(network)}
                  = 0..(Cardinality(cycles) - 1)
            /\ \A a, b \in cycles :
                  (id(a) < id(b)) <=> (MinOf(basin(a)) < MinOf(basin(b)))

\* analyze() has returned with several attractors, and an attractor with a
\* later id has a state smaller than every state of the attractor with id 0.
C20_Witness ==
    /\ SyncReturned
    /\ \E t \in States(network) :
          /\ state_info[t].is_attractor
          /\ state_info[t].attractor_id >= 1
          /\ \A s \in States(network) :
                (state_info[s].is_attractor /\ state_info[s].attractor_id = 0) => t < s

\* The position at which the set c was popped from the Tarjan stack.
PopPosition(c) == CHOOSE i \in 1..Len(popped) : popped[i] = c

\* C21: after AsyncAnalyzerTarjan.analyze(), the attractor ids in use are
\* 0..k-1 for the k attractors, and attractor a has a smaller id than
\* attractor b exactly when the SCC of a was popped before the SCC of b.
C21_AsyncIdOrder ==
    TarjanReturned =>
        LET terminal == TerminalSccs(network)
            id(c) == tj_state_info[MinOf(c)].attractor_id
        IN  /\ {tj_state_info[s].attractor_id :
                   s \in {u \in States(network) : tj_state_info[u].is_attractor}}
                  = 0..(Cardinality(terminal) - 1)
            /\ terminal \subseteq SeqToSet(popped)
            /\ \A a, b \in terminal :
                  (id(a) < id(b)) <=> (PopPosition(a) < PopPosition(b))

\* analyze() has returned with several attractors, and an SCC that is not
\* an attractor was popped before the last of them.
C21_Witness ==
    /\ TarjanReturned
    /\ Len(attractors) >= 2
    /\ \E i, j \in 1..Len(popped) :
          /\ i < j
          /\ popped[i] \notin SeqToSet(attractors)
          /\ popped[j] \in SeqToSet(attractors)
          /\ tj_state_info[MinOf(popped[j])].attractor_id >= 1

\* C22: while StateSpaceAnalyzer.analyze() runs, a record of state_info is
\* never removed or changed, and a step that writes state_info writes the
\* states of the local path of its walk, each once and none of them
\* recorded before.
C22_WriteOnce ==
    [][SyncRunning =>
          /\ \A s \in DOMAIN state_info :
                s \in DOMAIN state_info' /\ state_info'[s] = state_info[s]
          /\ state_info' # state_info =>
                /\ SeqToSet(path) \cap DOMAIN state_info = {}
                /\ DOMAIN state_info' = DOMAIN state_info \cup SeqToSet(path)
                /\ Cardinality(SeqToSet(path)) = Len(path)]_vars

\* A walk has just written its path into a state_info that held the
\* records of earlier walks, among them a state the walk stopped at.
C22_Witness ==
    /\ phase = "sync"
    /\ sync_pc = "loop"
    /\ Len(path) >= 2
    /\ SeqToSet(path) \subseteq DOMAIN state_info
    /\ current \in DOMAIN state_info \ SeqToSet(path)
    /\ Cardinality(DOMAIN state_info \ SeqToSet(path)) >= 2

\* The walk of the local path: each state of path is followed by its
\* synchronous next state, the last one by current.
PathIsWalk ==
    \A i \in 1..Len(path) :
        compute_next_network_state_sync(network, path[i])
            = (IF i < Len(path) THEN path[i + 1] ELSE current)

\* C23: the step of a walk that finds current already in state_info
\* records every path[i] with is_attractor False, the attractor_id of
\* current and the distance of current plus len(path) - i, and path[i] is
\* len(path) - i synchronous steps before current.
C23_PropagationStep ==
    [][(/\ phase = "sync"
        /\ sync_pc = "walk"
        /\ current \notin DOMAIN visited_local
        /\ current \in DOMAIN state_info) =>
          /\ PathIsWalk
          /\ \A i \in 0..(Len(path) - 1) :
                state_info'[path[i + 1]]
                    = [is_attractor |-> FALSE,
                       attractor_id |-> state_info[current].attractor_id,
                       distance |-> state_info[current].distance + (Len(path) - i)]
          /\ state_info'[current] = state_info[current]]_vars

\* A walk of two or more states has ended at a recorded transient state and
\* its path has been recorded.
C23_Witness ==
    /\ phase = "sync"
    /\ sync_pc = "loop"
    /\ Len(path) >= 2
    /\ current \notin SeqToSet(path)
    /\ current \in DOMAIN state_info
    /\ state_info[current].distance >= 1
    /\ path[1] \in DOMAIN state_info
    /\ state_info[path[1]].distance = state_info[current].distance + Len(path)

\* C24: the step of a walk that finds current on its local path at position
\* c records path[c..] as attractor states with distance 0 and an
\* attractor_id no record has yet, and every path[i] with i < c with
\* is_attractor False, that attractor_id and distance c - i; the path is a
\* chain of synchronous steps that closes at path[c].
C24_CycleClosureStep ==
    [][(/\ phase = "sync"
        /\ sync_pc = "walk"
        /\ current \in DOMAIN visited_local) =>
          LET c == visited_local[current]
          IN  /\ PathIsWalk
              /\ path[c + 1] = current
              /\ \A s \in DOMAIN state_info :
                    state_info[s].attractor_id # next_attractor_id
              /\ \A i \in c..(Len(path) - 1) :
                    state_info'[path[i + 1]]
                        = [is_attractor |-> TRUE,
                           attractor_id |-> next_attractor_id,
                           distance |-> 0]
              /\ \A i \in 0..(c - 1) :
                    state_info'[path[i + 1]]
                        = [is_attractor |-> FALSE,
                           attractor_id |-> next_attractor_id,
                           distance |-> c - i]]_vars

\* A walk has closed a cycle of two or more states after two or more
\* transient states, and it was not the first cycle found.
C24_Witness ==
    /\ phase = "sync"
    /\ sync_pc = "loop"
    /\ current \in SeqToSet(path)
    /\ current \in DOMAIN visited_local
    /\ visited_local[current] >= 2
    /\ Len(path) - visited_local[current] >= 2
    /\ current \in DOMAIN state_info
    /\ state_info[current].is_attractor
    /\ state_info[current].attractor_id >= 1

\* C25: every set popped at a root of _strongconnect is a maximal set of
\* mutually reachable states of the asynchronous graph and is disjoint from
\* every set popped before, and once analyze() has returned the union of
\* the popped sets is the whole state space.
C25_PoppedAreSccs ==
    /\ [][(/\ phase = "tarjan"
           /\ tj_pc = "dfs"
           /\ TopFrame.k >= Len(TopFrame.succs)
           /\ lowlink[TopFrame.state] = indices[TopFrame.state]) =>
             LET scc == SccOf(nx_edges(network), TopFrame.state)
             IN  /\ popped' = Append(popped, scc)
                 /\ scc \cap UNION SeqToSet(popped) = {}]_vars
    /\ [](TarjanReturned => UNION SeqToSet(popped) = States(network))

\* analyze() has returned after popping two or more sets, one of them of
\* three or more states.
C25_Witness ==
    /\ TarjanReturned
    /\ Len(popped) >= 2
    /\ \E i \in 1..Len(popped) : Cardinality(popped[i]) >= 3

\* The states of trajectory traj, followed by the state current, lie in
\* the attractor of tj_state_info that holds start_state.
StaysInAttractor(start_state, states) ==
    \A s \in states :
        /\ tj_state_info[s].is_attractor
        /\ tj_state_info[s].attractor_id = tj_state_info[start_state].attractor_id
        /\ \E k \in 1..Len(attractors) : {start_state, s} \subseteq attractors[k]

\* C26: a simulation by compute_next_network_state(., synchronous=False)
\* that starts in a state AsyncAnalyzerTarjan marks as an attractor state
\* is, after any number of steps and for every choice of the updated node,
\* in a state of the same attractor; each step keeps the state or moves to
\* one of its asynchronous successors.  The attractor is closed under one
\* step from each of its states, for every node (so a simulation of any
\* length stays inside), and the trajectories generate_long_trajectories
\* builds from such a start stay inside.
C26_AttractorsTrap ==
    /\ [](TarjanReturned =>
             \A s \in States(network) :
                 tj_state_info[s].is_attractor =>
                     \A i \in 0..(network.number_of_nodes - 1) :
                         LET next == compute_next_network_state_async(network, s, i)
                         IN  /\ StaysInAttractor(s, {next})
                             /\ \/ next = s
                                \/ next \in SeqToSet(async_successors(network, s)))
    /\ []((phase = "trajectories" /\ Len(tj_returned) > 0) =>
             LET keys == ev_out.all_states
             IN  /\ \A k \in 1..Len(ev_out.trajectories) :
                        tj_state_info[keys[k]].is_attractor =>
                            StaysInAttractor(
                                keys[k], SeqToSet(ev_out.trajectories[k].trajectory))
                 /\ ev_out.pc = "range" =>
                        LET start_state == keys[Len(ev_out.trajectories) + 1]
                        IN  tj_state_info[start_state].is_attractor =>
                                StaysInAttractor(
                                    start_state,
                                    SeqToSet(ev_out.traj) \cup {ev_out.current}))
    /\ [][(/\ phase = "trajectories"
           /\ ev_out.pc = "range"
           /\ Len(ev_out.traj) < ev_in[1]) =>
             \/ ev_out'.current = ev_out.current
             \/ ev_out'.current \in SeqToSet(async_successors(network, ev_out.current))]_vars

\* A trajectory of generate_long_trajectories has moved away from its start
\* inside an attractor AsyncAnalyzerTarjan has found, in a network that also
\* has transient states; the start is a state beyond the slots of a small
\* set's table and is the first key of state_info.
C26_Witness ==
    /\ phase = "trajectories"
    /\ Len(tj_returned) > 0
    /\ ev_out.pc = "range"
    /\ Len(ev_out.traj) >= 1
    /\ tj_state_info[ev_out.traj[1]].is_attractor
    /\ ev_out.current # ev_out.traj[1]
    /\ ev_out.traj[1] >= PySet_MINSIZE
    /\ ev_out.all_states[1] = ev_out.traj[1]
    /\ \E s \in States(network) : ~tj_state_info[s].is_attractor

RECURSIVE IterateNext(_, _, _)
\* The synchronous next-state function applied k times to s.
IterateNext(net, s, k) ==
    IF k = 0 THEN s
    ELSE IterateNext(net, compute_next_network_state_sync(net, s), k - 1)

\* C27: create_dataset with synchronous=True returns number_of_datapoints
\* trajectories of exactly trajectory_length states each; a trajectory
\* starts with its starting state and its j-th state, counted from 0, is the
\* state j * sampling_frequency synchronous steps after the starting state.
C27_DatasetSamplingRate ==
    ev_op = "create_dataset" =>
        LET number_of_datapoints == ev_in[1]
            trajectory_length == ev_in[2]
            sampling_frequency == ev_in[3]
            starting_states == ev_in[4]
            output == ev_out[1]
        IN  /\ Len(output) = number_of_datapoints
            /\ \A i \in 1..number_of_datapoints :
                  /\ Len(output[i]) = trajectory_length
                  /\ output[i][1] = starting_states[i]
                  /\ \A j \in 0..(trajectory_length - 1) :
                        output[i][j + 1]
                            = IterateNext(network, starting_states[i],
                                          j * sampling_frequency)

\* A dataset of two trajectories of three states sampled at every second
\* step, from different starting states; in the first, the states one and
\* two steps after the start differ, so the sampling rate shows.
C27_Witness ==
    /\ ev_op = "create_dataset"
    /\ ev_in[1] = 2
    /\ ev_in[2] = 3
    /\ ev_in[3] = 2
    /\ ev_in[4][1] # ev_in[4][2]
    /\ ev_out[1][1][2] # ev_out[1][1][1]
    /\ ev_out[1][1][2] # compute_next_network_state_sync(network, ev_in[4][1])

RECURSIVE IsSubsequenceFrom(_, _, _, _)
\* a[i..] can be read off b[j..] from left to right.
IsSubsequenceFrom(a, b, i, j) ==
    IF i > Len(a) THEN TRUE
    ELSE IF j > Len(b) THEN FALSE
    ELSE IF a[i] = b[j] THEN IsSubsequenceFrom(a, b, i + 1, j + 1)
    ELSE IsSubsequenceFrom(a, b, i, j + 1)

\* C28: every trajectory sample_dataset_from_long_trajectories returns has
\* exactly trajectory_length states, of which
\* round(transient_fraction * trajectory_length) are transient states and
\* the rest attractor states, in the order they have in a fragment
\* traj[offset::sampling_frequency] of a long trajectory; also when the
\* required number of transient states is 0.
C28_SampledComposition ==
    (ev_op = "sample_dataset_from_long_trajectories" /\ ~ev_out.is_none) =>
        LET long_trajectories == ev_in[1]
            trajectory_length == ev_in[3]
            transient_fraction == ev_in[4]
            sampling_frequency == ev_in[5]
            mode == ev_in[6]
            attractor_states ==
                collect_attractor_states(
                    IF mode = "synchronous" THEN state_info ELSE AsyncStateInfo, mode)
        IN  \A i \in 1..Len(ev_out.trajectories) :
                LET final == ev_out.trajectories[i]
                    transient == Len(positions_from(final, attractor_states, FALSE, 0))
                IN  /\ Len(final) = trajectory_length
                    /\ transient \in python_round(
                                         transient_fraction[1] * trajectory_length,
                                         transient_fraction[2])
                    /\ \E start_state \in DOMAIN long_trajectories :
                       \E offset \in 0..(sampling_frequency - 1) :
                          IsSubsequenceFrom(
                              final,
                              slice_from(long_trajectories[start_state].trajectory,
                                         offset, sampling_frequency),
                              1, 1)

\* C29: generate_long_trajectories in synchronous mode returns, for every
\* start state, a trajectory of exactly max_length states in which no
\* transient state follows an attractor state, with transient_count =
\* min(distance(start), max_length) and transient_count + attractor_count =
\* max_length.
C29_LongTrajectories ==
    (ev_op = "generate_long_trajectories" /\ ev_in[2] = "synchronous") =>
        LET max_length == ev_in[1]
        IN  /\ DOMAIN ev_out = States(network)
            /\ \A start_state \in States(network) :
                  LET r == ev_out[start_state]
                      traj == r.trajectory
                  IN  /\ Len(traj) = max_length
                      /\ \A i, j \in 1..Len(traj) :
                            (i < j /\ state_info[traj[i]].is_attractor)
                                => state_info[traj[j]].is_attractor
                      /\ r.transient_count
                            = Min(state_info[start_state].distance, max_length)
                      /\ r.transient_count + r.attractor_count = max_length

\* Long trajectories of two or more states have been generated for a
\* network in which one start state is further than max_length from its
\* attractor and another is a transient state nearer than max_length.
C29_Witness ==
    /\ ev_op = "generate_long_trajectories"
    /\ ev_in[2] = "synchronous"
    /\ ev_in[1] >= 2
    /\ \E s \in States(network) : state_info[s].distance > ev_in[1]
    /\ \E s \in States(network) :
          /\ state_info[s].distance >= 1
          /\ state_info[s].distance < ev_in[1]

\* C30: while a walk of _analyze_from_state runs, no state of its local
\* path is in state_info, so the current state is never both on the local
\* path and in state_info, and a step that tests "current in
\* self.state_info" before "current in visited_local" leaves the same
\* state_info as the step of the source.
C30_StopConditionsExclusive ==
    /\ []((phase = "sync" /\ sync_pc = "walk") =>
             /\ SeqToSet(path) \cap DOMAIN state_info = {}
             /\ DOMAIN visited_local = SeqToSet(path)
             /\ ~(current \in DOMAIN visited_local /\ current \in DOMAIN state_info))
    /\ [][(phase = "sync" /\ sync_pc = "walk") =>
             state_info' =
                 IF current \in DOMAIN state_info
                 THEN propagate_existing_info(state_info, path, current)
                 ELSE IF current \in DOMAIN visited_local
                 THEN register_new_attractor(state_info, path, visited_local[current],
                                             next_attractor_id)
                 ELSE state_info]_vars

\* A walk with two or more states on its path has reached a state that an
\* earlier walk recorded.
C30_Witness ==
    /\ phase = "sync"
    /\ sync_pc = "walk"
    /\ Len(path) >= 2
    /\ current \in DOMAIN state_info
    /\ current \notin DOMAIN visited_local

====
